---- MODULE Spec2Model ----
(***************************************************************************)
(* Query-safety and transaction-routing subsystem of the Redshift MCP      *)
(* server: DatabaseOperations.executeSpectrumQuery and the functions it    *)
(* calls (database module), with the connection, the federated-table       *)
(* catalog and the global logging manager as collaborators.                *)
(*                                                                         *)
(* SQL text is a sequence of one-character strings, so that the regular    *)
(* expressions of the source are evaluated character by character.         *)
(***************************************************************************)
EXTENDS Integers, Sequences, FiniteSets, TLC

(***************************************************************************)
(* Bounds of the model.                                                    *)
(***************************************************************************)
\* An input text is the concatenation of at most MaxFrags fragments.
MaxFrags == 3
\* Invocations of the router that follow one another on the same connection.
MaxInvocations == 2

(***************************************************************************)
(* Characters and what the JavaScript string and RegExp primitives do      *)
(* with them.                                                              *)
(***************************************************************************)
UpperChars ==
    <<"A","B","C","D","E","F","G","H","I","J","K","L","M",
      "N","O","P","Q","R","S","T","U","V","W","X","Y","Z">>

LowerChars ==
    <<"a","b","c","d","e","f","g","h","i","j","k","l","m",
      "n","o","p","q","r","s","t","u","v","w","x","y","z">>

DigitChars == {"0","1","2","3","4","5","6","7","8","9"}

UpperSet == {UpperChars[i] : i \in 1..26}

LowerSet == {LowerChars[i] : i \in 1..26}

\* String.prototype.toLowerCase on one character
ToLowerChar(c) ==
    IF c \in UpperSet
    THEN LowerChars[CHOOSE i \in 1..26 : UpperChars[i] = c]
    ELSE c

\* String.prototype.toLowerCase
toLowerCase(s) == [i \in 1..Len(s) |-> ToLowerChar(s[i])]

\* \s of RegExp, and what String.prototype.trim strips
SpaceChars == {" ", "\t", "\n", "\r"}

IsSpace(c) == c \in SpaceChars

\* \w of RegExp
WordChars == UpperSet \cup LowerSet \cup DigitChars \cup {"_"}

IsWordChar(c) == c \in WordChars

\* [a-zA-Z_] and [a-zA-Z0-9_] of the table-reference patterns
IdentStartChars == UpperSet \cup LowerSet \cup {"_"}

IsIdentStart(c) == c \in IdentStartChars

IsIdentChar(c) == IsWordChar(c)

\* . of RegExp (no s flag): any character but a line terminator
IsDot(c) == c \notin {"\n", "\r"}

\* String.prototype.trim
trim(s) ==
    IF \A i \in 1..Len(s) : IsSpace(s[i])
    THEN << >>
    ELSE LET a == CHOOSE i \in 1..Len(s) :
                     ~IsSpace(s[i]) /\ \A k \in 1..(i-1) : IsSpace(s[k])
             b == CHOOSE i \in 1..Len(s) :
                     ~IsSpace(s[i]) /\ \A k \in (i+1)..Len(s) : IsSpace(s[k])
         IN  SubSeq(s, a, b)

\* the literal w occurs in s at index i
LitAt(s, i, w) ==
    /\ i >= 1
    /\ i + Len(w) - 1 <= Len(s)
    /\ \A k \in 1..Len(w) : s[i + k - 1] = w[k]

\* the literal w occurs in s at index i, letter case ignored (flag i)
LitAtI(s, i, w) ==
    /\ i >= 1
    /\ i + Len(w) - 1 <= Len(s)
    /\ \A k \in 1..Len(w) : ToLowerChar(s[i + k - 1]) = ToLowerChar(w[k])

\* a greedy \s* from index i ends before this index
SkipSpace(s, i) ==
    CHOOSE j \in i..(Len(s) + 1) :
        /\ \A k \in i..(j-1) : IsSpace(s[k])
        /\ (j = Len(s) + 1 \/ ~IsSpace(s[j]))

\* a greedy [a-zA-Z0-9_]* from index i ends before this index
SkipIdent(s, i) ==
    CHOOSE j \in i..(Len(s) + 1) :
        /\ \A k \in i..(j-1) : IsIdentChar(s[k])
        /\ (j = Len(s) + 1 \/ ~IsIdentChar(s[j]))

\* \b before index i, where s[i] is a word character
WordStartAt(s, i) == i = 1 \/ ~IsWordChar(s[i-1])

\* \s at index i
SpaceAt(s, i) == i >= 1 /\ i <= Len(s) /\ IsSpace(s[i])

(***************************************************************************)
(* Query Validator: validateSelectOnlyQuery and                            *)
(* containsNestedModifications of the database module.                     *)
(***************************************************************************)
\* insert|update|delete|drop|create|alter|truncate|merge
ModificationKeywords ==
    { <<"i","n","s","e","r","t">>,
      <<"u","p","d","a","t","e">>,
      <<"d","e","l","e","t","e">>,
      <<"d","r","o","p">>,
      <<"c","r","e","a","t","e">>,
      <<"a","l","t","e","r">>,
      <<"t","r","u","n","c","a","t","e">>,
      <<"m","e","r","g","e">> }

\* grant|revoke
PrivilegeKeywords ==
    { <<"g","r","a","n","t">>,
      <<"r","e","v","o","k","e">> }

\* call|exec|execute
CallKeywords ==
    { <<"c","a","l","l">>,
      <<"e","x","e","c">>,
      <<"e","x","e","c","u","t","e">> }

\* one of the alternatives kws, then \s, at index i
KeywordSpaceAt(s, i, kws) ==
    \E kw \in kws : LitAtI(s, i, kw) /\ SpaceAt(s, i + Len(kw))

\* set\s+<word>\s at index i
SetPhraseAt(s, i, word) ==
    /\ LitAtI(s, i, <<"s","e","t">>)
    /\ SpaceAt(s, i + 3)
    /\ LET j == SkipSpace(s, i + 3)
       IN  LitAtI(s, j, word) /\ SpaceAt(s, j + Len(word))

\* \s*select\s at index i
SelectAt(s, i) ==
    LET j == SkipSpace(s, i)
    IN  LitAtI(s, j, <<"s","e","l","e","c","t">>) /\ SpaceAt(s, j + 6)

\* /^\s*(\/\*.*?\*\/)?\s*select\s/i
selectPattern(s) ==
    LET p == SkipSpace(s, 1)
    IN  \/ SelectAt(s, p)
        \/ /\ LitAt(s, p, <<"/","*">>)
           /\ \E k \in (p + 2)..(Len(s) - 1) :
                 /\ LitAt(s, k, <<"*","/">>)
                 /\ \A j \in (p + 2)..(k - 1) : IsDot(s[j])
                 /\ SelectAt(s, k + 2)

\* the pattern without its \b: (insert|update|...|merge)\s
prohibitedModification_NoBoundary(s) ==
    \E i \in 1..Len(s) : KeywordSpaceAt(s, i, ModificationKeywords)

\* /\b(insert|update|delete|drop|create|alter|truncate|merge)\s/i
prohibitedModification(s) ==
    \E i \in 1..Len(s) :
        WordStartAt(s, i) /\ KeywordSpaceAt(s, i, ModificationKeywords)

\* /\b(grant|revoke|set\s+session|set\s+role)\s/i
prohibitedPrivilege(s) ==
    \E i \in 1..Len(s) :
        /\ WordStartAt(s, i)
        /\ \/ KeywordSpaceAt(s, i, PrivilegeKeywords)
           \/ SetPhraseAt(s, i, <<"s","e","s","s","i","o","n">>)
           \/ SetPhraseAt(s, i, <<"r","o","l","e">>)

\* /\b(call|exec|execute)\s/i
prohibitedCall(s) ==
    \E i \in 1..Len(s) :
        WordStartAt(s, i) /\ KeywordSpaceAt(s, i, CallKeywords)

\* validateSelectOnlyQuery(sqlQuery)
validateSelectOnlyQuery(sql) ==
    LET trimmedQuery == toLowerCase(trim(sql))
    IN  IF ~selectPattern(trimmedQuery)
        THEN FALSE
        ELSE IF \/ prohibitedModification(trimmedQuery)
                \/ prohibitedPrivilege(trimmedQuery)
                \/ prohibitedCall(trimmedQuery)
             THEN FALSE
             ELSE TRUE

\* \(\s*(insert|...|merge)\s at index i
ParenModificationAt(s, i) ==
    /\ LitAt(s, i, <<"(">>)
    /\ KeywordSpaceAt(s, SkipSpace(s, i + 1), ModificationKeywords)

\* /\(\s*(insert|update|delete|drop|create|alter|truncate|merge)\s/i
nestedInSubquery(s) ==
    \E i \in 1..Len(s) : ParenModificationAt(s, i)

\* /with\s+\w+\s+as\s*\(\s*(insert|...|merge)\s/i
nestedInCte(s) ==
    \E i \in 1..Len(s) :
        /\ LitAtI(s, i, <<"w","i","t","h">>)
        /\ SpaceAt(s, i + 4)
        /\ LET n  == SkipSpace(s, i + 4)
               e  == SkipIdent(s, n)
               a  == SkipSpace(s, e)
           IN  /\ e > n
               /\ SpaceAt(s, e)
               /\ LitAtI(s, a, <<"a","s">>)
               /\ ParenModificationAt(s, SkipSpace(s, a + 2))

\* containsNestedModifications(sqlQuery)
containsNestedModifications(sql) ==
    LET lowerQuery == toLowerCase(sql)
    IN  nestedInSubquery(lowerQuery) \/ nestedInCte(lowerQuery)

(***************************************************************************)
(* SecurityValidator.validateSqlQuery: the patterns are tested on the      *)
(* lower-cased, trimmed text.                                              *)
(***************************************************************************)
\* \b after index j - 1, where s[j-1] is a word character
WordEndAt(s, j) == j > Len(s) \/ ~IsWordChar(s[j])

\* \b(w1|w2|...)\b somewhere in s
HasWord(s, ws) ==
    \E i \in 1..Len(s) : \E w \in ws :
        WordStartAt(s, i) /\ LitAt(s, i, w) /\ WordEndAt(s, i + Len(w))

\* the character at index i is c
CharAt(s, i, c) == i >= 1 /\ i <= Len(s) /\ s[i] = c

\* \d at index i
DigitAt(s, i) == i >= 1 /\ i <= Len(s) /\ s[i] \in DigitChars

\* a greedy \d* from index i ends before this index
SkipDigits(s, i) ==
    CHOOSE j \in i..(Len(s) + 1) :
        /\ \A k \in i..(j-1) : s[k] \in DigitChars
        /\ (j = Len(s) + 1 \/ s[j] \notin DigitChars)

\* drop|delete|update|insert|alter|create|truncate
DangerousKeywords == ModificationKeywords \ { <<"m","e","r","g","e">> }

\* exec|execute
ExecKeywords == CallKeywords \ { <<"c","a","l","l">> }

\* or|and
OrAnd == { <<"o","r">>, <<"a","n","d">> }

\* /\b(xp_|sp_)\w+/i
extendedProcedure(s) ==
    \E i \in 1..Len(s) :
        /\ WordStartAt(s, i)
        /\ LitAt(s, i, <<"x","p","_">>) \/ LitAt(s, i, <<"s","p","_">>)
        /\ i + 3 <= Len(s) /\ IsWordChar(s[i + 3])

\* union\s+(all\s+)?select at index i
UnionSelectAt(s, i, allowAll) ==
    /\ LitAt(s, i, <<"u","n","i","o","n">>)
    /\ SpaceAt(s, i + 5)
    /\ LET j == SkipSpace(s, i + 5)
       IN  \/ LitAt(s, j, <<"s","e","l","e","c","t">>)
           \/ /\ allowAll
              /\ LitAt(s, j, <<"a","l","l">>)
              /\ SpaceAt(s, j + 3)
              /\ LitAt(s, SkipSpace(s, j + 3), <<"s","e","l","e","c","t">>)

\* /\b(union\s+select)\b/i
unionSelectWord(s) ==
    \E i \in 1..Len(s) :
        /\ WordStartAt(s, i)
        /\ UnionSelectAt(s, i, FALSE)
        /\ WordEndAt(s, SkipSpace(s, i + 5) + 6)

\* /;\s*--/i and /;\s*\/\*/i
commentAfterSemicolon(s) ==
    \E i \in 1..Len(s) :
        /\ s[i] = ";"
        /\ LET j == SkipSpace(s, i + 1)
           IN  LitAt(s, j, <<"-","-">>) \/ LitAt(s, j, <<"/","*">>)

\* the seven dangerousPatterns
dangerousPattern(s) ==
    \/ HasWord(s, DangerousKeywords)
    \/ HasWord(s, PrivilegeKeywords)
    \/ HasWord(s, ExecKeywords)
    \/ extendedProcedure(s)
    \/ unionSelectWord(s)
    \/ commentAfterSemicolon(s)

\* \b(or|and)\s+ at index i: the index after the white space, 0 if no match
AfterOrAnd(s, i, ws) ==
    IF /\ WordStartAt(s, i)
       /\ \E w \in ws : LitAt(s, i, w) /\ SpaceAt(s, i + Len(w))
    THEN LET w == CHOOSE w \in ws : LitAt(s, i, w) /\ SpaceAt(s, i + Len(w))
         IN  SkipSpace(s, i + Len(w))
    ELSE 0

\* /\b(or|and)\s+[''][^'']*['']\s*=\s*[''][^'']*['']?/i
quotedTautology(s) ==
    \E i \in 1..Len(s) :
        LET p == AfterOrAnd(s, i, OrAnd)
        IN  /\ p > 0
            /\ CharAt(s, p, "'")
            /\ \E c \in (p + 1)..Len(s) :
                  /\ s[c] = "'"
                  /\ \A k \in (p + 1)..(c - 1) : s[k] # "'"
                  /\ LET t == SkipSpace(s, c + 1)
                     IN  /\ CharAt(s, t, "=")
                         /\ CharAt(s, SkipSpace(s, t + 1), "'")

\* /\bor\s+['']?\w*['']?\s*=\s*['']?\w*['']?/i
suspiciousOr(s) ==
    \E i \in 1..Len(s) :
        LET p == AfterOrAnd(s, i, { <<"o","r">> })
        IN  /\ p > 0
            /\ \E a \in {p, p + 1} :
                  /\ a = p + 1 => CharAt(s, p, "'")
                  /\ LET r == SkipIdent(s, a)
                     IN  \E b \in {r, r + 1} :
                            /\ b = r + 1 => CharAt(s, r, "'")
                            /\ CharAt(s, SkipSpace(s, b), "=")

\* /union\s+(all\s+)?select/i
unionInjection(s) == \E i \in 1..Len(s) : UnionSelectAt(s, i, TRUE)

\* /--\s*$/i
trailingComment(s) ==
    \E i \in 1..Len(s) :
        LitAt(s, i, <<"-","-">>) /\ SkipSpace(s, i + 2) = Len(s) + 1

\* /\/\*.*?\*\//i
blockComment(s) ==
    \E i \in 1..Len(s) :
        /\ LitAt(s, i, <<"/","*">>)
        /\ \E k \in (i + 2)..Len(s) :
              /\ LitAt(s, k, <<"*","/">>)
              /\ \A j \in (i + 2)..(k - 1) : IsDot(s[j])

\* /\b(or|and)\s+\d+\s*=\s*\d+/i
numericTautology(s) ==
    \E i \in 1..Len(s) :
        LET p == AfterOrAnd(s, i, OrAnd)
        IN  /\ p > 0
            /\ DigitAt(s, p)
            /\ LET t == SkipSpace(s, SkipDigits(s, p))
               IN  CharAt(s, t, "=") /\ DigitAt(s, SkipSpace(s, t + 1))

\* /'\s*(or|and)\s*'/i
quotedOrAnd(s) ==
    \E i \in 1..Len(s) :
        /\ s[i] = "'"
        /\ LET j == SkipSpace(s, i + 1)
           IN  \E w \in OrAnd :
                  LitAt(s, j, w) /\ CharAt(s, SkipSpace(s, j + Len(w)), "'")

\* /0x[0-9a-f]+/i
hexLiteral(s) ==
    \E i \in 1..Len(s) :
        /\ LitAt(s, i, <<"0","x">>)
        /\ i + 2 <= Len(s)
        /\ s[i + 2] \in DigitChars \cup {"a","b","c","d","e","f"}

\* select|insert|update|delete|drop|create|alter
StatementKeywords ==
    (DangerousKeywords \ { <<"t","r","u","n","c","a","t","e">> })
       \cup { <<"s","e","l","e","c","t">> }

\* /;\s*(select|insert|update|delete|drop|create|alter)/i
multipleStatement(s) ==
    \E i \in 1..Len(s) :
        /\ s[i] = ";"
        /\ \E w \in StatementKeywords : LitAt(s, SkipSpace(s, i + 1), w)

\* the nine injectionPatterns
injectionPattern(s) ==
    \/ quotedTautology(s)
    \/ suspiciousOr(s)
    \/ unionInjection(s)
    \/ trailingComment(s)
    \/ blockComment(s)
    \/ numericTautology(s)
    \/ quotedOrAnd(s)
    \/ hexLiteral(s)
    \/ multipleStatement(s)

\* normalizedSql.includes(w)
includes(s, w) == \E i \in 1..Len(s) : LitAt(s, i, w)

\* SecurityValidator.validateSqlQuery(sql).isValid
validateSqlQuery(sql) ==
    LET normalizedSql == trim(toLowerCase(sql))
    IN  /\ Len(sql) > 0
        /\ Len(normalizedSql) > 0
        /\ ~dangerousPattern(normalizedSql)
        /\ ~injectionPattern(normalizedSql)
        /\ ~includes(normalizedSql, <<"@","@">>)
        /\ ~(/\ includes(normalizedSql,
                         <<"i","n","f","o","r","m","a","t","i","o","n","_",
                           "s","c","h","e","m","a">>)
             /\ ~includes(normalizedSql, <<"s","e","l","e","c","t">>))

(***************************************************************************)
(* The ValidationResult objects of SecurityValidator: the error list in    *)
(* the order of the errors.push calls, and the isValid flag each return    *)
(* statement computes.                                                     *)
(***************************************************************************)
DangerousError == "Potentially dangerous SQL pattern detected"

InjectionError == "Potential SQL injection pattern detected"

\* errors.push(e) when the condition holds
PushIf(cond, e) == IF cond THEN <<e>> ELSE << >>

\* /;\s*--/i
lineCommentAfterSemicolon(s) ==
    \E i \in 1..Len(s) :
        s[i] = ";" /\ LitAt(s, SkipSpace(s, i + 1), <<"-","-">>)

\* /;\s*\/\*/i
blockCommentAfterSemicolon(s) ==
    \E i \in 1..Len(s) :
        s[i] = ";" /\ LitAt(s, SkipSpace(s, i + 1), <<"/","*">>)

\* the loop with the first pattern, the modification keywords, left out
dangerousErrors_NoModification(s) ==
    PushIf(HasWord(s, PrivilegeKeywords), DangerousError)
       \o PushIf(HasWord(s, ExecKeywords), DangerousError)
       \o PushIf(extendedProcedure(s), DangerousError)
       \o PushIf(unionSelectWord(s), DangerousError)
       \o PushIf(lineCommentAfterSemicolon(s), DangerousError)
       \o PushIf(blockCommentAfterSemicolon(s), DangerousError)

\* the loop over dangerousPatterns: one error for every pattern that matches
dangerousErrors(s) ==
    PushIf(HasWord(s, DangerousKeywords), DangerousError)
       \o PushIf(HasWord(s, PrivilegeKeywords), DangerousError)
       \o PushIf(HasWord(s, ExecKeywords), DangerousError)
       \o PushIf(extendedProcedure(s), DangerousError)
       \o PushIf(unionSelectWord(s), DangerousError)
       \o PushIf(lineCommentAfterSemicolon(s), DangerousError)
       \o PushIf(blockCommentAfterSemicolon(s), DangerousError)

\* the return statement of a path that sets isValid to false
Invalid(errors) == [isValid |-> FALSE, errors |-> errors]

\* the last return statement: isValid: errors.length === 0
Validated_AlwaysValid(errors) == [isValid |-> TRUE, errors |-> errors]

Validated(errors) == [isValid |-> Len(errors) = 0, errors |-> errors]

\* SecurityValidator.validateSqlQuery(sql)
validateSqlQueryResult(sql) ==
    IF Len(sql) = 0
    THEN Invalid(<<"SQL query must be a non-empty string">>)
    ELSE LET normalizedSql == trim(toLowerCase(sql))
         IN  IF Len(normalizedSql) = 0
             THEN Invalid(<<"SQL query cannot be empty">>)
             ELSE Validated(
                    dangerousErrors(normalizedSql)
                       \o PushIf(injectionPattern(normalizedSql), InjectionError)
                       \o PushIf(includes(normalizedSql, <<"@","@">>),
                                 "Global variables access detected")
                       \o PushIf(/\ includes(normalizedSql,
                                      <<"i","n","f","o","r","m","a","t","i","o",
                                        "n","_","s","c","h","e","m","a">>)
                                 /\ ~includes(normalizedSql,
                                              <<"s","e","l","e","c","t">>),
                                 "Suspicious information_schema access detected"))

\* identifier.length > 63
IdentifierLimit == 63

reservedKeywords ==
    { <<"s","e","l","e","c","t">>, <<"f","r","o","m">>, <<"w","h","e","r","e">>,
      <<"i","n","s","e","r","t">>, <<"u","p","d","a","t","e">>,
      <<"d","e","l","e","t","e">>, <<"d","r","o","p">>,
      <<"c","r","e","a","t","e">>, <<"a","l","t","e","r">>,
      <<"t","a","b","l","e">>, <<"d","a","t","a","b","a","s","e">>,
      <<"s","c","h","e","m","a">>, <<"i","n","d","e","x">>, <<"v","i","e","w">>,
      <<"p","r","o","c","e","d","u","r","e">>, <<"f","u","n","c","t","i","o","n">>,
      <<"t","r","i","g","g","e","r">>, <<"u","s","e","r">>, <<"r","o","l","e">>,
      <<"g","r","a","n","t">>, <<"r","e","v","o","k","e">> }

IdentifierTypes == {"schema", "table", "column"}

\* /^[a-zA-Z0-9_]+$/ for a schema or a column, /^[a-zA-Z0-9_.]+$/ for a table
validPattern(identifier, type) ==
    /\ Len(identifier) > 0
    /\ \A i \in 1..Len(identifier) :
          \/ IsWordChar(identifier[i])
          \/ type = "table" /\ identifier[i] = "."

\* SecurityValidator.validateIdentifier(identifier, type)
validateIdentifier(identifier, type) ==
    IF Len(identifier) = 0
    THEN Invalid(<<"identifier must be a non-empty string">>)
    ELSE Validated(
           PushIf(Len(identifier) > IdentifierLimit,
                  "identifier exceeds maximum length of 63 characters")
              \o PushIf(toLowerCase(identifier) \in reservedKeywords,
                        "identifier cannot be a reserved keyword")
              \o PushIf(~validPattern(identifier, type),
                        "identifier contains invalid characters"))

\* [a-zA-Z0-9_.], the characters sanitizeTableName keeps
IsTableNameChar(c) == IsWordChar(c) \/ c = "."

\* [a-zA-Z0-9_], the characters sanitizeSchemaName keeps
IsSchemaNameChar(c) == IsWordChar(c)

\* SecurityValidator.sanitizeTableName(name):
\* name.replaceAll(/[^a-zA-Z0-9_.]/g, "")
sanitizeTableName(name) ==
    IF Len(name) = 0 THEN << >> ELSE SelectSeq(name, IsTableNameChar)

\* the schema sanitizer with the character class of the table sanitizer
sanitizeSchemaName_KeepsDots(name) ==
    IF Len(name) = 0 THEN << >> ELSE SelectSeq(name, IsTableNameChar)

\* SecurityValidator.sanitizeSchemaName(name):
\* name.replaceAll(/[^a-zA-Z0-9_]/g, "")
sanitizeSchemaName(name) ==
    IF Len(name) = 0 THEN << >> ELSE SelectSeq(name, IsSchemaNameChar)

(***************************************************************************)
(* Table-reference extraction of isExternalTableQuery: three patterns,     *)
(* each applied with matchAll to the original text.                        *)
(***************************************************************************)
NoMatch == [ok |-> FALSE, schema |-> << >>, table |-> << >>, end |-> 0]

\* match[1] || "public"
DefaultSchema == <<"p","u","b","l","i","c">>

\* an optional double quote ("?) at index p ends before this index
SkipQuote(s, p) == IF p <= Len(s) /\ s[p] = "\"" THEN p + 1 ELSE p

\* [a-zA-Z_] at index q
IdentStartAt(s, q) == q >= 1 /\ q <= Len(s) /\ IsIdentStart(s[q])

\* (?:FROM|JOIN) at index i
FromOrJoinAt(s, i) == LitAtI(s, i, <<"F","R","O","M">>) \/ LitAtI(s, i, <<"J","O","I","N">>)

\* (?:"?([a-zA-Z_][a-zA-Z0-9_]*)"?\.)?"?([a-zA-Z_][a-zA-Z0-9_]*)"? at index p
TablePartAt(s, p) ==
    LET q == SkipQuote(s, p)
    IN  IF ~IdentStartAt(s, q)
        THEN NoMatch
        ELSE LET e1 == SkipIdent(s, q + 1)
                 r  == SkipQuote(s, e1)
                 t  == SkipQuote(s, r + 1)
             IN  IF r <= Len(s) /\ s[r] = "." /\ IdentStartAt(s, t)
                 THEN LET e2 == SkipIdent(s, t + 1)
                      IN  [ok |-> TRUE, schema |-> SubSeq(s, q, e1 - 1),
                           table |-> SubSeq(s, t, e2 - 1),
                           end |-> SkipQuote(s, e2)]
                 ELSE [ok |-> TRUE, schema |-> DefaultSchema,
                       table |-> SubSeq(s, q, e1 - 1),
                       end |-> SkipQuote(s, e1)]

\* FROM\s+<table part> at index f
FromTableAt(s, f) ==
    IF LitAtI(s, f, <<"F","R","O","M">>) /\ SpaceAt(s, f + 4)
    THEN TablePartAt(s, SkipSpace(s, f + 4))
    ELSE NoMatch

\* SELECT.*?FROM\s+<table part> at index k: the lazy .*? stops at the first
\* FROM from which the rest of the pattern matches
SelectFromAt(s, k) ==
    IF ~LitAtI(s, k, <<"S","E","L","E","C","T">>)
    THEN NoMatch
    ELSE LET ends == { f \in (k + 6)..Len(s) :
                          /\ \A j \in (k + 6)..(f - 1) : IsDot(s[j])
                          /\ FromTableAt(s, f).ok }
         IN  IF ends = {}
             THEN NoMatch
             ELSE FromTableAt(s, CHOOSE f \in ends : \A g \in ends : f <= g)

\* pattern 1 at index i: (?:FROM|JOIN)\s+<table part>
StandardAt(s, i) ==
    IF FromOrJoinAt(s, i) /\ SpaceAt(s, i + 4)
    THEN TablePartAt(s, SkipSpace(s, i + 4))
    ELSE NoMatch

\* pattern 2 at index i: (?:FROM|JOIN)\s*\(\s*SELECT.*?FROM\s+<table part>
SubqueryAt(s, i) ==
    IF ~FromOrJoinAt(s, i)
    THEN NoMatch
    ELSE LET j == SkipSpace(s, i + 4)
         IN  IF LitAt(s, j, <<"(">>)
             THEN SelectFromAt(s, SkipSpace(s, j + 1))
             ELSE NoMatch

\* pattern 3 at index i: WITH\s+\w+\s+AS\s*\(\s*SELECT.*?FROM\s+<table part>
WithAt(s, i) ==
    IF ~(LitAtI(s, i, <<"W","I","T","H">>) /\ SpaceAt(s, i + 4))
    THEN NoMatch
    ELSE LET n == SkipSpace(s, i + 4)
             e == SkipIdent(s, n)
         IN  IF ~(e > n /\ SpaceAt(s, e))
             THEN NoMatch
             ELSE LET a == SkipSpace(s, e)
                  IN  IF ~LitAtI(s, a, <<"A","S">>)
                      THEN NoMatch
                      ELSE LET j == SkipSpace(s, a + 2)
                           IN  IF LitAt(s, j, <<"(">>)
                               THEN SelectFromAt(s, SkipSpace(s, j + 1))
                               ELSE NoMatch

\* the pattern numbered n at index i
PatternAt(n, s, i) ==
    CASE n = 1 -> StandardAt(s, i)
      [] n = 2 -> SubqueryAt(s, i)
      [] n = 3 -> WithAt(s, i)

\* [...sqlQuery.matchAll(pattern)]: the matches from left to right, each
\* search starting where the previous match ended
RECURSIVE matchAll(_, _, _)
matchAll(n, s, pos) ==
    LET starts == { i \in pos..Len(s) : PatternAt(n, s, i).ok }
    IN  IF starts = {}
        THEN << >>
        ELSE LET i == CHOOSE x \in starts : \A y \in starts : x <= y
                 m == PatternAt(n, s, i)
             IN  <<m>> \o matchAll(n, s, m.end)

\* /^(select|from|where|group|order|having|limit)$/i
ReservedWords ==
    { <<"s","e","l","e","c","t">>,
      <<"f","r","o","m">>,
      <<"w","h","e","r","e">>,
      <<"g","r","o","u","p">>,
      <<"o","r","d","e","r">>,
      <<"h","a","v","i","n","g">>,
      <<"l","i","m","i","t">> }

IsReservedWord(w) == \E r \in ReservedWords : Len(r) = Len(w) /\ LitAtI(w, 1, r)

\* `${schemaName}.${tableName}`
TableKey(m) == m.schema \o <<".">> \o m.table

\* Set.prototype.add over a list of matches: insertion order, no duplicates
RECURSIVE AddAll(_, _)
AddAll(refs, ms) ==
    IF ms = << >>
    THEN refs
    ELSE LET m   == Head(ms)
             key == TableKey(m)
         IN  IF Len(m.table) > 0 /\ ~IsReservedWord(m.table)
                /\ ~(\E k \in 1..Len(refs) : refs[k] = key)
             THEN AddAll(Append(refs, key), Tail(ms))
             ELSE AddAll(refs, Tail(ms))

\* the tableReferences set of isExternalTableQuery, in insertion order
ExtractTableReferences(sql) ==
    AddAll(AddAll(AddAll(<< >>, matchAll(1, sql, 1)),
                  matchAll(2, sql, 1)),
           matchAll(3, sql, 1))

(***************************************************************************)
(* Input texts: concatenations of at most MaxFrags fragments.              *)
(***************************************************************************)
Fragments ==
    { <<"S","E","L","E","C","T"," ","a"," ">>,
      <<"F","R","O","M"," ","e","x","t",".","t"," ">>,
      <<"J","O","I","N"," ","u"," ">>,
      <<"(","m","e","r","g","e"," ">>,
      <<"D","R","O","P"," ">> }

RECURSIVE Flatten(_)
Flatten(fs) == IF fs = << >> THEN << >> ELSE Head(fs) \o Flatten(Tail(fs))

SqlTexts ==
    { Flatten(fs) : fs \in UNION { [1..n -> Fragments] : n \in 0..MaxFrags } }

(***************************************************************************)
(* State.                                                                  *)
(***************************************************************************)
VARIABLES
    SPECTRUM_ENABLED,      \* SPECTRUM_CONFIG.ENABLED
    globalLoggingManager,  \* "null", or "set" by setGlobalLoggingManager
    sqlQuery,              \* the text the current invocation was given
    pc,                    \* where the invocation stands
    isSelectQuery,         \* const isSelectQuery of executeSpectrumQuery
    cmds,                  \* what the invocation sent to client.query, in order
    txState,               \* the connection: "none", "ro" or "rw" transaction
    tableReferences,       \* references isExternalTableQuery has yet to check
    isExternal,            \* const isExternalTableQuery: "unset", "true", "false"
    secureError,           \* what executeSecureSpectrumQuery raised, or "none"
    error,                 \* the error being propagated, or "none"
    outcome,               \* what executeSpectrumQuery delivered to its caller
    invocations,           \* invocations started on this connection
    toolName,              \* the request being served, or the last one served
    client,                \* the pooled connection: "pool" or "held"
    releases,              \* client.release() calls of that request
    response,              \* what the request handler delivered
    conn,                  \* the pool's connection the request holds, or 0
    idleTx,                \* the pool: the transaction each connection was left in
    parked,                \* the other request in flight, waiting at an await
    STRICT_VALIDATION,     \* SPECTRUM_CONFIG.STRICT_VALIDATION
    validation,            \* the validators called directly: input and results
    sample,                \* a sample-data request: path, stored row, served row
    backend,               \* an HTTP (or Datadog) logging backend
    logger,                \* the global logger module
    manager,               \* a LoggingManager
    activeTransactions     \* the performance transactions started and not finished

vars ==
    <<SPECTRUM_ENABLED, globalLoggingManager, sqlQuery, pc, isSelectQuery, cmds,
      txState, tableReferences, isExternal, secureError, error, outcome, invocations,
      toolName, client, releases, response, conn, idleTx, parked,
      STRICT_VALIDATION, validation, sample, backend, logger, manager,
      activeTransactions>>

\* the state of the request handlers (handleToolCall, the resource handlers)
handler == <<toolName, client, releases, response, conn>>

\* the parts of the server that are modelled on their own
observers == <<validation, sample, backend, logger, manager>>

\* what a step of the running request that starts or finishes no performance
\* transaction leaves alone: the connections idle in the pool, the other
\* request, the active transactions and the parts modelled on their own
apart == <<observers, activeTransactions>>

elsewhere == <<idleTx, parked, apart>>

\* the same for a step that starts or finishes a performance transaction
routing == <<idleTx, parked, observers>>

config == <<SPECTRUM_ENABLED, globalLoggingManager, STRICT_VALIDATION>>

Pending == [kind |-> "pending", cause |-> "none", wrapped |-> FALSE]

Rows == [kind |-> "rows", cause |-> "none", wrapped |-> FALSE]

\* throw new Error(`Failed to execute query: ${error.message}`), or an error
\* leaving executeSpectrumQuery as it is
Thrown(cause, wrapped) == [kind |-> "thrown", cause |-> cause, wrapped |-> wrapped]

\* a ToolResponse: isError, the text it starts with, and the cause of the
\* error its text carries
ToolResponse(isError, text, cause) ==
    [isError |-> isError, text |-> text, cause |-> cause, errors |-> << >>]

\* `Security validation failed:\n${validation.errors.join("\n")}`
SecurityResponse(errors) ==
    [isError |-> TRUE, text |-> "Security validation failed",
     cause |-> "security", errors |-> errors]

NoResponse == ToolResponse(FALSE, "none", "none")

\* no validator has been called directly: each function's last result is a
\* sequence, empty until the function is called
NoValidation ==
    [kind |-> "none", input |-> << >>, type |-> "none", selectOnly |-> << >>,
     nested |-> << >>, security |-> << >>, identifier |-> << >>,
     globalLogger |-> "unset", tableName |-> << >>, schemaName |-> << >>,
     tableNameAgain |-> << >>, schemaNameAgain |-> << >>]

\* process.env.REDSHIFT_SPECTRUM_STRICT_VALIDATION !== "false": the variable
\* is set to "false" under one of the four configurations
StrictSettings(enabled, installed) ==
    IF ~enabled /\ installed = "null" THEN BOOLEAN ELSE {TRUE}

\* a backend as constructed: isInitialized = false, no config, no timers, no
\* pending logs; sends are the sendLogs calls in progress, handed the batches
\* passed to sendLogs so far, unsent the entries of the batches for which
\* sendLogs made no request, placed the entries pushed into pendingLogs
NoBackend ==
    [isInitialized |-> FALSE, config |-> << >>, timers |-> 0,
     pendingLogs |-> << >>, sends |-> {}, handed |-> << >>, placed |-> {},
     unsent |-> {}, logged |-> {}, closing |-> "none"]

\* the global logger module as loaded: let globalLogger = null; returned
\* are the results of the getGlobalLogger calls so far, asyncInit the state
\* of the initialization that the last getGlobalLogger started
NoLogger ==
    [globalLogger |-> "null", init |-> "none", asyncInit |-> "none",
     returned |-> << >>, fallbacks |-> FALSE]

\* no backend has been passed an entry yet
NoDelivery == [to |-> {}, called |-> {}, raised |-> {}, batch |-> FALSE]

\* a LoggingManager as constructed: no backends, isInitialized = false, no
\* pending entries, no timer.  todo are the backends whose initialization
\* initialize still awaits, last is the latest delivery to the backends,
\* rejected says that a log call rejected, lost that pending entries were
\* flushed while no backend was registered
NoManager ==
    [backends |-> {}, isInitialized |-> FALSE, starting |-> FALSE, todo |-> {},
     pendingEntries |-> 0, batchFlushTimer |-> "undefined", closing |-> FALSE,
     calls |-> 0, last |-> NoDelivery, rejected |-> FALSE, lost |-> FALSE]

\* no sample data has been asked for
NoSample == [path |-> "none", stored |-> << >>, served |-> << >>, failed |-> FALSE]

\* a request that has not begun
NoRequest ==
    [pc |-> "idle", sqlQuery |-> << >>, isSelectQuery |-> FALSE, cmds |-> << >>,
     txState |-> "none", tableReferences |-> << >>, isExternal |-> "unset",
     secureError |-> "none", error |-> "none", outcome |-> Pending,
     toolName |-> "none", client |-> "pool", releases |-> 0,
     response |-> NoResponse, conn |-> 0]

Init ==
    /\ SPECTRUM_ENABLED \in BOOLEAN
    /\ globalLoggingManager \in {"null", "set"}
    /\ sqlQuery = << >>
    /\ pc = "idle"
    /\ isSelectQuery = FALSE
    /\ cmds = << >>
    /\ txState = "none"
    /\ tableReferences = << >>
    /\ isExternal = "unset"
    /\ secureError = "none"
    /\ error = "none"
    /\ outcome = Pending
    /\ invocations = 0
    /\ toolName = "none"
    /\ client = "pool"
    /\ releases = 0
    /\ response = NoResponse
    /\ conn = 0
    /\ idleTx = <<"none">>
    /\ parked = NoRequest
    /\ activeTransactions = {}
    /\ STRICT_VALIDATION \in StrictSettings(SPECTRUM_ENABLED, globalLoggingManager)
    /\ validation = NoValidation
    /\ sample = NoSample
    /\ backend = NoBackend
    /\ logger = NoLogger
    /\ manager = NoManager

(***************************************************************************)
(* The connection (pg PoolClient): what a command does to its transaction  *)
(* state when it succeeds; a command that fails leaves it as it was.       *)
(***************************************************************************)
ConnApply(cmd, ok, tx) ==
    IF ~ok THEN tx
    ELSE CASE cmd = "BEGIN_RO" -> IF tx = "none" THEN "ro" ELSE tx
           [] cmd = "BEGIN"    -> IF tx = "none" THEN "rw" ELSE tx
           [] cmd \in {"COMMIT", "ROLLBACK"} -> "none"
           [] OTHER -> tx

\* await client.query(...) in function by: the command is recorded with its
\* outcome (found: the catalog answered with a positive count), the state of
\* the connection's transaction when it was sent, and whether the request
\* held the connection then
Record(by, cmd, arg, ok, found) ==
    /\ cmds' = Append(cmds, [by |-> by, cmd |-> cmd, arg |-> arg, ok |-> ok,
                             found |-> found, tx |-> txState,
                             held |-> client = "held"])
    /\ txState' = ConnApply(cmd, ok, txState)

Issue(by, cmd, arg, ok) == Record(by, cmd, arg, ok, FALSE)

\* the invocation returns result.rows
ReturnRows ==
    /\ pc' = "done"
    /\ outcome' = Rows

\* an error reaches the catch clause of executeSpectrumQuery
ThrowToOuter(cause) ==
    /\ pc' = "catch"
    /\ error' = cause

(***************************************************************************)
(* executeSpectrumQuery                                                    *)
(***************************************************************************)
\* EntryTarget without the validation (mutant)
EntryTarget_SkipValidation(sql) ==
    IF ~SPECTRUM_ENABLED THEN "disabled_begin" ELSE "lookup"

\* EntryTarget without the configuration flag (mutant)
EntryTarget_IgnoreEnabled(sql) ==
    IF ~validateSelectOnlyQuery(sql) THEN "catch" ELSE "lookup"

\* LoggingManager.startTransaction and SentryLoggingBackend.startTransaction
\* with performance monitoring on: the transaction is stored under its id.
\* The ids are made from the name and the time; here the connection of the
\* invocation stands for the time.
startTransaction(active, name, c) ==
    IF globalLoggingManager = "set" THEN active \cup {<<name, c>>} ELSE active

\* finishTransaction: the transaction stored under the id is finished and
\* deleted; nothing happens when there is none
finishTransaction(active, name, c) ==
    IF globalLoggingManager = "set" THEN active \ {<<name, c>>} ELSE active

\* where the synchronous head of executeSpectrumQuery leads
EntryTarget(sql) ==
    IF ~validateSelectOnlyQuery(sql) THEN "catch"
    ELSE IF ~SPECTRUM_ENABLED THEN "disabled_begin"
    ELSE "lookup"

\* the call: validation, then the configuration flag
executeSpectrumQuery(sql) ==
    /\ pc = "idle"
    /\ invocations < MaxInvocations
    /\ invocations' = invocations + 1
    /\ sqlQuery' = sql
    /\ isSelectQuery' = validateSelectOnlyQuery(sql)
    /\ pc' = EntryTarget(sql)
    /\ error' = IF EntryTarget(sql) = "catch" THEN "validation" ELSE "none"
    /\ tableReferences' =
          IF EntryTarget(sql) = "lookup" THEN ExtractTableReferences(sql) ELSE << >>
    /\ activeTransactions' =
          LET started == startTransaction(activeTransactions, "database.query", conn')
          IN  IF validateSelectOnlyQuery(sql)
              THEN started
              ELSE finishTransaction(started, "database.query", conn')
    /\ UNCHANGED <<config, routing, cmds, isExternal, secureError, outcome>>

\* Spectrum disabled: await client.query("BEGIN TRANSACTION READ ONLY")
disabledBegin ==
    /\ pc = "disabled_begin"
    /\ \E ok \in BOOLEAN :
          /\ Issue("main", "BEGIN_RO", << >>, ok)
          /\ IF ok
             THEN pc' = "disabled_query" /\ UNCHANGED error
             ELSE ThrowToOuter("begin")
    /\ UNCHANGED <<config, elsewhere, handler, sqlQuery, isSelectQuery, tableReferences, isExternal, secureError,
                   outcome, invocations>>

\* await client.query(raw(sqlQuery))
disabledQuery ==
    /\ pc = "disabled_query"
    /\ \E ok \in BOOLEAN :
          /\ Issue("main", "QUERY", sqlQuery, ok)
          /\ IF ok
             THEN pc' = "disabled_commit" /\ UNCHANGED error
             ELSE pc' = "disabled_rollback" /\ error' = "query"
    /\ UNCHANGED <<config, elsewhere, handler, sqlQuery, isSelectQuery, tableReferences, isExternal, secureError,
                   outcome, invocations>>

\* await client.query("COMMIT"); return result.rows
disabledCommit ==
    /\ pc = "disabled_commit"
    /\ \E ok \in BOOLEAN :
          /\ Issue("main", "COMMIT", << >>, ok)
          /\ IF ok
             THEN ReturnRows /\ UNCHANGED error
             ELSE pc' = "disabled_rollback" /\ error' = "commit" /\ UNCHANGED outcome
    /\ UNCHANGED <<config, elsewhere, handler, sqlQuery, isSelectQuery, tableReferences, isExternal, secureError,
                   invocations>>

\* catch (error) { await client.query("ROLLBACK"); throw error; }
disabledRollback ==
    /\ pc = "disabled_rollback"
    /\ \E ok \in BOOLEAN :
          /\ Issue("main", "ROLLBACK", << >>, ok)
          /\ ThrowToOuter(IF ok THEN error ELSE "rollback")
    /\ UNCHANGED <<config, elsewhere, handler, sqlQuery, isSelectQuery, tableReferences, isExternal, secureError,
                   outcome, invocations>>

(***************************************************************************)
(* isExternalTableQuery: one catalog lookup per reference, in order.       *)
(***************************************************************************)
\* CountIsPositive as count >= 0 (mutant)
CountIsPositive_NonNegative(answer) == answer \in {"found", "absent"}

\* result.rows[0]?.count > 0
CountIsPositive(answer) == answer = "found"

\* LookupErrorResult as return true (mutant)
LookupErrorResult_True == "true"

\* the catch clause of isExternalTableQuery: return false
LookupErrorResult == "false"

\* if (isExternalTableQuery) ... else ...
RouteTarget(isExt) == IF isExt = "true" THEN "secure" ELSE "regular_begin"

\* isExternalTableQuery that answers after the first reference (mutant)
isExternalTableQuery_FirstOnly ==
    /\ pc = "lookup"
    /\ IF tableReferences = << >>
       THEN /\ isExternal' = "false"
            /\ pc' = RouteTarget("false")
            /\ UNCHANGED <<cmds, txState, tableReferences>>
       ELSE \E answer \in {"found", "absent", "error"} :
               /\ Record("lookup", "LOOKUP", Head(tableReferences),
                         answer # "error", answer = "found")
               /\ tableReferences' = Tail(tableReferences)
               /\ IF answer = "found"
                  THEN /\ isExternal' = "true"
                       /\ pc' = RouteTarget("true")
                  ELSE /\ isExternal' = "false"
                       /\ pc' = RouteTarget("false")
    /\ UNCHANGED <<config, elsewhere, handler, sqlQuery, isSelectQuery, secureError, error, outcome,
                   invocations>>

isExternalTableQuery ==
    /\ pc = "lookup"
    /\ IF tableReferences = << >>
       THEN /\ isExternal' = "false"
            /\ pc' = RouteTarget("false")
            /\ UNCHANGED <<cmds, txState, tableReferences>>
       ELSE \E answer \in {"found", "absent", "error"} :
               /\ Record("lookup", "LOOKUP", Head(tableReferences),
                         answer # "error", answer = "found")
               /\ tableReferences' = Tail(tableReferences)
               /\ IF answer = "error"
                  THEN /\ isExternal' = LookupErrorResult
                       /\ pc' = RouteTarget(LookupErrorResult)
                  ELSE IF CountIsPositive(answer)
                  THEN /\ isExternal' = "true"
                       /\ pc' = RouteTarget("true")
                  ELSE UNCHANGED <<isExternal, pc>>
    /\ UNCHANGED <<config, elsewhere, handler, sqlQuery, isSelectQuery, secureError, error, outcome, invocations>>

(***************************************************************************)
(* executeSpectrumQuery, regular query: read-only transaction.             *)
(***************************************************************************)
\* await client.query("BEGIN TRANSACTION READ ONLY")
regularBegin ==
    /\ pc = "regular_begin"
    /\ \E ok \in BOOLEAN :
          /\ Issue("main", "BEGIN_RO", << >>, ok)
          /\ IF ok
             THEN pc' = "regular_query" /\ UNCHANGED error
             ELSE ThrowToOuter("begin")
    /\ UNCHANGED <<config, elsewhere, handler, sqlQuery, isSelectQuery, tableReferences, isExternal, secureError,
                   outcome, invocations>>

\* await client.query(raw(sqlQuery))
\* the statement sent as the validator matched it: trimmed and in lower case
regularQuery_Normalized ==
    /\ pc = "regular_query"
    /\ \E ok \in BOOLEAN :
          /\ Issue("main", "QUERY", toLowerCase(trim(sqlQuery)), ok)
          /\ IF ok
             THEN pc' = "regular_commit" /\ UNCHANGED error
             ELSE pc' = "regular_rollback" /\ error' = "query"
    /\ UNCHANGED <<config, elsewhere, handler, sqlQuery, isSelectQuery, tableReferences, isExternal, secureError,
                   outcome, invocations>>

regularQuery ==
    /\ pc = "regular_query"
    /\ \E ok \in BOOLEAN :
          /\ Issue("main", "QUERY", sqlQuery, ok)
          /\ IF ok
             THEN pc' = "regular_commit" /\ UNCHANGED error
             ELSE pc' = "regular_rollback" /\ error' = "query"
    /\ UNCHANGED <<config, elsewhere, handler, sqlQuery, isSelectQuery, tableReferences, isExternal, secureError,
                   outcome, invocations>>

\* await client.query("COMMIT"); then the log call if a manager is set
regularCommit ==
    /\ pc = "regular_commit"
    /\ \E ok \in BOOLEAN :
          /\ Issue("main", "COMMIT", << >>, ok)
          /\ IF ~ok
             THEN pc' = "regular_rollback" /\ error' = "commit" /\ UNCHANGED outcome
             ELSE IF globalLoggingManager = "set"
             THEN pc' = "regular_info" /\ UNCHANGED <<error, outcome>>
             ELSE ReturnRows /\ UNCHANGED error
    /\ UNCHANGED <<config, elsewhere, handler, sqlQuery, isSelectQuery, tableReferences, isExternal, secureError,
                   invocations>>

\* await globalLoggingManager.info(...), inside the try block
regularInfo ==
    /\ pc = "regular_info"
    /\ \E ok \in BOOLEAN :
          IF ok
          THEN /\ ReturnRows /\ UNCHANGED error
               /\ activeTransactions' =
                     finishTransaction(activeTransactions, "database.query", conn)
          ELSE /\ pc' = "regular_rollback" /\ error' = "log"
               /\ UNCHANGED <<outcome, activeTransactions>>
    /\ UNCHANGED <<config, routing, handler, sqlQuery, isSelectQuery, cmds, txState, tableReferences, isExternal,
                   secureError, invocations>>

\* catch (error) { await client.query("ROLLBACK"); throw error; }
regularRollback ==
    /\ pc = "regular_rollback"
    /\ \E ok \in BOOLEAN :
          /\ Issue("main", "ROLLBACK", << >>, ok)
          /\ ThrowToOuter(IF ok THEN error ELSE "rollback")
    /\ UNCHANGED <<config, elsewhere, handler, sqlQuery, isSelectQuery, tableReferences, isExternal, secureError,
                   outcome, invocations>>

(***************************************************************************)
(* executeSecureSpectrumQuery, and the catch clause around its call.       *)
(***************************************************************************)
\* the two checks at the head of executeSecureSpectrumQuery
SecureCheck(sql) ==
    IF ~validateSelectOnlyQuery(sql) THEN "validation"
    ELSE IF containsNestedModifications(sql) THEN "nested"
    ELSE "none"

\* catch (error) { return await this.executeTraditionalSpectrumQuery(...) }:
\* the first await of the fallback is the warning when a manager is set
FallbackEntry ==
    IF globalLoggingManager = "set" THEN "traditional_warning"
    ELSE "traditional_begin"

\* executeSecureSpectrumQuery raises cause; the caller falls back
SecureRaises(cause) ==
    /\ secureError' = cause
    /\ error' = "none"
    /\ pc' = FallbackEntry

\* the checks, then await client.query("BEGIN")
secureBegin ==
    /\ pc = "secure"
    /\ IF SecureCheck(sqlQuery) # "none"
       THEN SecureRaises(SecureCheck(sqlQuery)) /\ UNCHANGED <<cmds, txState>>
       ELSE \E ok \in BOOLEAN :
               /\ Issue("secure", "BEGIN", << >>, ok)
               /\ IF ok
                  THEN pc' = "secure_query" /\ UNCHANGED <<secureError, error>>
                  ELSE SecureRaises("begin")
    /\ UNCHANGED <<config, elsewhere, handler, sqlQuery, isSelectQuery, tableReferences, isExternal, outcome,
                   invocations>>

\* secureQuery whose failure leaves the function without a ROLLBACK (mutant)
secureQuery_NoRollback ==
    /\ pc = "secure_query"
    /\ \E ok \in BOOLEAN :
          /\ Issue("secure", "QUERY", sqlQuery, ok)
          /\ IF ok
             THEN pc' = "secure_commit" /\ UNCHANGED <<secureError, error>>
             ELSE SecureRaises("query")
    /\ UNCHANGED <<config, elsewhere, handler, sqlQuery, isSelectQuery, tableReferences, isExternal,
                   outcome, invocations>>

\* await client.query(raw(sqlQuery))
secureQuery ==
    /\ pc = "secure_query"
    /\ \E ok \in BOOLEAN :
          /\ Issue("secure", "QUERY", sqlQuery, ok)
          /\ IF ok
             THEN pc' = "secure_commit" /\ UNCHANGED error
             ELSE pc' = "secure_rollback" /\ error' = "query"
    /\ UNCHANGED <<config, elsewhere, handler, sqlQuery, isSelectQuery, tableReferences, isExternal, secureError,
                   outcome, invocations>>

\* secureCommit that rolls back after the COMMIT (mutant)
secureCommit_ThenRollback ==
    /\ pc = "secure_commit"
    /\ \E ok \in BOOLEAN :
          /\ Issue("secure", "COMMIT", << >>, ok)
          /\ pc' = "secure_rollback"
          /\ error' = "commit"
          /\ UNCHANGED outcome
    /\ UNCHANGED <<config, elsewhere, handler, sqlQuery, isSelectQuery, tableReferences, isExternal,
                   secureError, invocations>>

\* await client.query("COMMIT"); return result.rows
secureCommit ==
    /\ pc = "secure_commit"
    /\ \E ok \in BOOLEAN :
          /\ Issue("secure", "COMMIT", << >>, ok)
          /\ IF ok
             THEN ReturnRows /\ UNCHANGED error
             ELSE pc' = "secure_rollback" /\ error' = "commit" /\ UNCHANGED outcome
    /\ UNCHANGED <<config, elsewhere, handler, sqlQuery, isSelectQuery, tableReferences, isExternal, secureError,
                   invocations>>

\* catch (error) { await client.query("ROLLBACK"); throw error; }
secureRollback ==
    /\ pc = "secure_rollback"
    /\ \E ok \in BOOLEAN :
          /\ Issue("secure", "ROLLBACK", << >>, ok)
          /\ SecureRaises(IF ok THEN error ELSE "rollback")
    /\ UNCHANGED <<config, elsewhere, handler, sqlQuery, isSelectQuery, tableReferences, isExternal, outcome,
                   invocations>>

(***************************************************************************)
(* executeTraditionalSpectrumQuery: the fallback.                          *)
(***************************************************************************)
\* startTransaction and await globalLoggingManager.warning(...), inside the
\* try block
traditionalWarning ==
    /\ pc = "traditional_warning"
    /\ \E ok \in BOOLEAN :
          IF ok
          THEN pc' = "traditional_begin" /\ UNCHANGED error
          ELSE pc' = "traditional_rollback" /\ error' = "log"
    /\ activeTransactions' =
          startTransaction(activeTransactions, "spectrum_fallback", conn)
    /\ UNCHANGED <<config, routing, handler, sqlQuery, isSelectQuery, cmds, txState, tableReferences, isExternal,
                   secureError, outcome, invocations>>

\* await client.query("BEGIN")
traditionalBegin ==
    /\ pc = "traditional_begin"
    /\ \E ok \in BOOLEAN :
          /\ Issue("traditional", "BEGIN", << >>, ok)
          /\ IF ok
             THEN pc' = "traditional_query" /\ UNCHANGED error
             ELSE pc' = "traditional_rollback" /\ error' = "begin"
    /\ UNCHANGED <<config, elsewhere, handler, sqlQuery, isSelectQuery, tableReferences, isExternal, secureError,
                   outcome, invocations>>

\* traditionalQuery that sends a failed statement again (mutant)
traditionalQuery_Retry ==
    /\ pc = "traditional_query"
    /\ \E ok \in BOOLEAN :
          /\ Issue("traditional", "QUERY", sqlQuery, ok)
          /\ IF ok
             THEN pc' = "traditional_commit" /\ UNCHANGED error
             ELSE pc' = "traditional_query" /\ error' = "query"
    /\ UNCHANGED <<config, elsewhere, handler, sqlQuery, isSelectQuery, tableReferences, isExternal, secureError,
                   outcome, invocations>>

\* await client.query(raw(sqlQuery))
traditionalQuery ==
    /\ pc = "traditional_query"
    /\ \E ok \in BOOLEAN :
          /\ Issue("traditional", "QUERY", sqlQuery, ok)
          /\ IF ok
             THEN pc' = "traditional_commit" /\ UNCHANGED error
             ELSE pc' = "traditional_rollback" /\ error' = "query"
    /\ UNCHANGED <<config, elsewhere, handler, sqlQuery, isSelectQuery, tableReferences, isExternal, secureError,
                   outcome, invocations>>

\* await client.query("COMMIT"); then the log call if a manager is set
traditionalCommit ==
    /\ pc = "traditional_commit"
    /\ \E ok \in BOOLEAN :
          /\ Issue("traditional", "COMMIT", << >>, ok)
          /\ IF ~ok
             THEN pc' = "traditional_rollback" /\ error' = "commit"
                  /\ UNCHANGED outcome
             ELSE IF globalLoggingManager = "set"
             THEN pc' = "traditional_info" /\ UNCHANGED <<error, outcome>>
             ELSE ReturnRows /\ UNCHANGED error
    /\ UNCHANGED <<config, elsewhere, handler, sqlQuery, isSelectQuery, tableReferences, isExternal, secureError,
                   invocations>>

\* await globalLoggingManager.info(...), inside the try block
traditionalInfo ==
    /\ pc = "traditional_info"
    /\ \E ok \in BOOLEAN :
          IF ok
          THEN /\ ReturnRows /\ UNCHANGED error
               /\ activeTransactions' =
                     finishTransaction(activeTransactions, "spectrum_fallback", conn)
          ELSE /\ pc' = "traditional_rollback" /\ error' = "log"
               /\ UNCHANGED <<outcome, activeTransactions>>
    /\ UNCHANGED <<config, routing, handler, sqlQuery, isSelectQuery, cmds, txState, tableReferences, isExternal,
                   secureError, invocations>>

\* catch (error) { await client.query("ROLLBACK"); ...log...; throw error; }
traditionalRollback ==
    /\ pc = "traditional_rollback"
    /\ \E ok \in BOOLEAN :
          /\ Issue("traditional", "ROLLBACK", << >>, ok)
          /\ IF ~ok
             THEN ThrowToOuter("rollback")
             ELSE IF globalLoggingManager = "set"
             THEN pc' = "traditional_error" /\ UNCHANGED error
             ELSE ThrowToOuter(error)
    /\ UNCHANGED <<config, elsewhere, handler, sqlQuery, isSelectQuery, tableReferences, isExternal, secureError,
                   outcome, invocations>>

\* await globalLoggingManager.error(...), inside the catch clause
traditionalError ==
    /\ pc = "traditional_error"
    /\ \E ok \in BOOLEAN :
          /\ ThrowToOuter(IF ok THEN error ELSE "log")
          /\ activeTransactions' =
                IF ok
                THEN finishTransaction(activeTransactions, "spectrum_fallback", conn)
                ELSE activeTransactions
    /\ UNCHANGED <<config, routing, handler, sqlQuery, isSelectQuery, cmds, txState, tableReferences, isExternal,
                   secureError, outcome, invocations>>

(***************************************************************************)
(* The catch clause of executeSpectrumQuery.                               *)
(***************************************************************************)
\* outerCatch that logs and returns no rows instead of throwing (mutant)
outerCatch_Swallow ==
    /\ pc = "catch"
    /\ pc' = "done"
    /\ outcome' = Rows
    /\ UNCHANGED <<config, elsewhere, handler, sqlQuery, isSelectQuery, cmds, txState, tableReferences,
                   isExternal, secureError, error, invocations>>

\* log the error if a manager is set, then throw the wrapped error; a log
\* call that rejects leaves the clause with its own error
outerCatch ==
    /\ pc = "catch"
    /\ pc' = "done"
    /\ IF globalLoggingManager = "set"
       THEN \E ok \in BOOLEAN :
               /\ outcome' = IF ok THEN Thrown(error, TRUE) ELSE Thrown("log", FALSE)
               /\ activeTransactions' =
                     IF ok
                     THEN finishTransaction(activeTransactions, "database.query", conn)
                     ELSE activeTransactions
       ELSE outcome' = Thrown(error, TRUE) /\ UNCHANGED activeTransactions
    /\ UNCHANGED <<config, routing, handler, sqlQuery, isSelectQuery, cmds, txState, tableReferences, isExternal,
                   secureError, error, invocations>>

(***************************************************************************)
(* handleToolCall and handleQueryTool: the connection is borrowed from the *)
(* pool, the statement is validated by SecurityValidator and handed to     *)
(* executeSpectrumQuery, the outcome becomes a ToolResponse, and the       *)
(* finally clause releases the connection.                                 *)
(***************************************************************************)
\* the connections of the pool
Connections == 1..Len(idleTx)

\* the connections no request holds
FreeConnections == {c \in Connections : c # parked.conn}

\* pool.connect() that hands out a connection whoever holds it (mutant)
Borrow_AnyConnection(tool) ==
    /\ toolName' = tool
    /\ client' = "held"
    /\ releases' = 0
    /\ \E c \in Connections :
          /\ conn' = c
          /\ txState' = idleTx[c]

\* const client = await pool.connect(): a connection no request holds, in
\* the state its last holder left it in
Borrow(tool) ==
    /\ toolName' = tool
    /\ client' = "held"
    /\ releases' = 0
    /\ \E c \in FreeConnections :
          /\ conn' = c
          /\ txState' = idleTx[c]

\* the request leaves the router's variables as a finished invocation left them
RouterIdle ==
    UNCHANGED <<sqlQuery, isSelectQuery, cmds, tableReferences, isExternal,
                secureError, error, outcome>>

\* QueryResponse with a text of its own for rows that came from the fallback
\* (mutant)
QueryResponse_FallbackFlagged(out) ==
    IF out.kind = "rows"
    THEN ToolResponse(FALSE,
                      IF \E i \in DOMAIN cmds : cmds[i].by = "traditional"
                      THEN "Query executed successfully with fallback"
                      ELSE "Query executed successfully with Spectrum support",
                      "none")
    ELSE ToolResponse(TRUE, "Error executing query", out.cause)

\* the response handleQueryTool builds from what executeSpectrumQuery delivered
QueryResponse(out) ==
    IF out.kind = "rows"
    THEN ToolResponse(FALSE, "Query executed successfully with Spectrum support",
                      "none")
    ELSE ToolResponse(TRUE, "Error executing query", out.cause)

\* handleToolCall, case TOOL_NAMES.QUERY, and the head of handleQueryTool
handleQueryTool(sql) ==
    /\ pc = "idle"
    /\ Borrow("query")
    /\ IF validateSqlQuery(sql)
       THEN /\ executeSpectrumQuery(sql)
            /\ response' = NoResponse
       ELSE /\ invocations < MaxInvocations
            /\ invocations' = invocations + 1
            /\ response' = SecurityResponse(validateSqlQueryResult(sql).errors)
            /\ pc' = "responded"
            /\ sqlQuery' = sql
            /\ UNCHANGED <<config, elsewhere, isSelectQuery, cmds, tableReferences,
                           isExternal, secureError, error, outcome>>

\* executeSpectrumQuery has returned or thrown: the try and catch of
\* handleQueryTool
handleQueryToolReturn ==
    /\ pc = "done"
    /\ pc' = "responded"
    /\ response' = QueryResponse(outcome)
    /\ UNCHANGED <<config, elsewhere, toolName, client, releases, conn, txState,
                   invocations>>
    /\ RouterIdle

\* handleToolCall, default case: return "Unknown tool"
handleUnknownTool ==
    /\ pc = "idle"
    /\ Borrow("unknown")
    /\ response' = ToolResponse(TRUE, "Unknown tool", "none")
    /\ pc' = "responded"
    /\ UNCHANGED <<config, elsewhere, invocations>>
    /\ RouterIdle

\* handleToolCall, case TOOL_NAMES.DESCRIBE_TABLE: the sanitizers run before
\* the try block of handleDescribeTableTool and may throw
handleDescribeTableTool ==
    /\ pc = "idle"
    /\ Borrow("describe_table")
    /\ \E sanitized \in BOOLEAN :
          IF sanitized
          THEN pc' = "describe_columns" /\ response' = NoResponse
          ELSE /\ pc' = "responded"
               /\ response' = ToolResponse(TRUE, "exception", "sanitize")
    /\ UNCHANGED <<config, elsewhere, invocations>>
    /\ RouterIdle

\* await DatabaseOperations.getTableColumns(client, schema, table)
getTableColumns ==
    /\ pc = "describe_columns"
    /\ \E ok \in BOOLEAN :
          /\ Issue("tool", "COLUMNS", << >>, ok)
          /\ IF ok
             THEN pc' = "describe_statistics" /\ UNCHANGED response
             ELSE /\ pc' = "responded"
                  /\ response' = ToolResponse(TRUE, "Error describing table", "query")
    /\ UNCHANGED <<config, elsewhere, toolName, client, releases, conn, sqlQuery, isSelectQuery,
                   tableReferences, isExternal, secureError, error, outcome,
                   invocations>>

\* await DatabaseOperations.getTableStatistics(client, schema, table)
getTableStatistics ==
    /\ pc = "describe_statistics"
    /\ \E ok \in BOOLEAN :
          /\ Issue("tool", "STATISTICS", << >>, ok)
          /\ response' =
                IF ok THEN ToolResponse(FALSE, "description", "none")
                ELSE ToolResponse(TRUE, "Error describing table", "query")
    /\ pc' = "responded"
    /\ UNCHANGED <<config, elsewhere, toolName, client, releases, conn, sqlQuery, isSelectQuery,
                   tableReferences, isExternal, secureError, error, outcome,
                   invocations>>

(***************************************************************************)
(* The ReadResource request handler.                                       *)
(***************************************************************************)
\* what the URI of the request names
ResourceKinds == {"schema", "table", "unknown_type", "invalid"}

\* a schema listing or a table resource borrows a connection; a resource
\* type that is not known throws inside the try block; any other URI throws
\* "Invalid resource URI" with no connection borrowed
readResource(kind) ==
    /\ pc = "idle"
    /\ CASE kind \in {"schema", "table"} ->
              /\ Borrow("read_resource")
              /\ pc' = "resource_query"
              /\ response' = NoResponse
         [] kind = "unknown_type" ->
              /\ Borrow("read_resource")
              /\ pc' = "responded"
              /\ response' = ToolResponse(TRUE, "exception", "resource_type")
         [] OTHER ->
              /\ toolName' = "read_resource"
              /\ client' = "pool"
              /\ releases' = 0
              /\ pc' = "responded"
              /\ UNCHANGED <<conn, txState>>
              /\ response' = ToolResponse(TRUE, "exception", "resource_uri")
    /\ UNCHANGED <<config, elsewhere, invocations>>
    /\ RouterIdle

\* result = await client.query(...); return { contents }
resourceQuery ==
    /\ pc = "resource_query"
    /\ \E ok \in BOOLEAN :
          /\ Issue("resource", "RESOURCE", << >>, ok)
          /\ response' =
                IF ok THEN ToolResponse(FALSE, "contents", "none")
                ELSE ToolResponse(TRUE, "exception", "query")
    /\ pc' = "responded"
    /\ UNCHANGED <<config, elsewhere, toolName, client, releases, conn, sqlQuery, isSelectQuery,
                   tableReferences, isExternal, secureError, error, outcome,
                   invocations>>

(***************************************************************************)
(* finally { client.release(); }: the connection goes back to the pool; a  *)
(* later request may be given the same one.                                *)
(***************************************************************************)
\* a handler that returns without releasing the connection (mutant)
release_Skipped ==
    /\ pc = "responded"
    /\ client = "held"
    /\ pc' = "idle"
    /\ sqlQuery' = << >>
    /\ isSelectQuery' = FALSE
    /\ cmds' = << >>
    /\ tableReferences' = << >>
    /\ isExternal' = "unset"
    /\ secureError' = "none"
    /\ error' = "none"
    /\ outcome' = Pending
    /\ toolName' = "none"
    /\ response' = NoResponse
    /\ UNCHANGED <<config, elsewhere, client, releases, conn, txState, invocations>>

release ==
    /\ pc = "responded"
    /\ client = "held"
    /\ pc' = "idle"
    /\ sqlQuery' = << >>
    /\ isSelectQuery' = FALSE
    /\ cmds' = << >>
    /\ tableReferences' = << >>
    /\ isExternal' = "unset"
    /\ secureError' = "none"
    /\ error' = "none"
    /\ outcome' = Pending
    /\ client' = "returned"
    /\ releases' = releases + 1
    /\ toolName' = "none"
    /\ response' = NoResponse
    /\ idleTx' = [idleTx EXCEPT ![conn] = txState]
    /\ conn' = 0
    /\ txState' = "none"
    /\ UNCHANGED <<config, parked, apart, invocations>>

\* the handler threw before it borrowed a connection: the request ends
requestEnds ==
    /\ pc = "responded"
    /\ client # "held"
    /\ pc' = "idle"
    /\ toolName' = "none"
    /\ response' = NoResponse
    /\ UNCHANGED <<config, elsewhere, client, releases, conn, txState, invocations>>
    /\ RouterIdle

Next ==
    \/ \E sql \in SqlTexts : handleQueryTool(sql)
    \/ handleQueryToolReturn
    \/ handleUnknownTool
    \/ handleDescribeTableTool
    \/ getTableColumns
    \/ getTableStatistics
    \/ \E kind \in ResourceKinds : readResource(kind)
    \/ resourceQuery
    \/ disabledBegin
    \/ disabledQuery
    \/ disabledCommit
    \/ disabledRollback
    \/ isExternalTableQuery
    \/ regularBegin
    \/ regularQuery
    \/ regularCommit
    \/ regularInfo
    \/ regularRollback
    \/ secureBegin
    \/ secureQuery
    \/ secureCommit
    \/ secureRollback
    \/ traditionalWarning
    \/ traditionalBegin
    \/ traditionalQuery
    \/ traditionalCommit
    \/ traditionalInfo
    \/ traditionalRollback
    \/ traditionalError
    \/ outerCatch
    \/ release
    \/ requestEnds

Spec == Init /\ [][Next]_vars

(***************************************************************************)
(* Two requests in flight.  Node runs one request until it reaches an      *)
(* await; there the other request may go on.  The request that waits is    *)
(* parked with everything that is local to it: the parameters and local    *)
(* variables of the functions it is in, and the connection it borrowed.    *)
(* SPECTRUM_CONFIG, globalLoggingManager and the pool belong to the module *)
(* and stay where they are.                                                *)
(***************************************************************************)
\* what is local to the running request
Running ==
    [pc |-> pc, sqlQuery |-> sqlQuery, isSelectQuery |-> isSelectQuery, cmds |-> cmds,
     txState |-> txState, tableReferences |-> tableReferences,
     isExternal |-> isExternal, secureError |-> secureError, error |-> error,
     outcome |-> outcome, toolName |-> toolName, client |-> client,
     releases |-> releases, response |-> response, conn |-> conn]

\* the running request waits at its await and the other request goes on
yield ==
    /\ parked' = Running
    /\ pc' = parked.pc
    /\ sqlQuery' = parked.sqlQuery
    /\ isSelectQuery' = parked.isSelectQuery
    /\ cmds' = parked.cmds
    /\ txState' = parked.txState
    /\ tableReferences' = parked.tableReferences
    /\ isExternal' = parked.isExternal
    /\ secureError' = parked.secureError
    /\ error' = parked.error
    /\ outcome' = parked.outcome
    /\ toolName' = parked.toolName
    /\ client' = parked.client
    /\ releases' = parked.releases
    /\ response' = parked.response
    /\ conn' = parked.conn
    /\ UNCHANGED <<config, idleTx, apart, invocations>>

\* the statements the two requests are given
ConcurrentTexts ==
    { Flatten(<< <<"S","E","L","E","C","T"," ","a"," ">>,
                 <<"F","R","O","M"," ","e","x","t",".","t"," ">> >>),
      <<"D","R","O","P"," ">> }

\* a pool of two connections; the server accepts requests after main() has
\* called setGlobalLoggingManager
ConcurrentInit ==
    /\ SPECTRUM_ENABLED \in BOOLEAN
    /\ globalLoggingManager = "set"
    /\ sqlQuery = << >>
    /\ pc = "idle"
    /\ isSelectQuery = FALSE
    /\ cmds = << >>
    /\ txState = "none"
    /\ tableReferences = << >>
    /\ isExternal = "unset"
    /\ secureError = "none"
    /\ error = "none"
    /\ outcome = Pending
    /\ invocations = 0
    /\ toolName = "none"
    /\ client = "pool"
    /\ releases = 0
    /\ response = NoResponse
    /\ conn = 0
    /\ idleTx = <<"none", "none">>
    /\ parked = NoRequest
    /\ activeTransactions = {}
    /\ STRICT_VALIDATION = TRUE
    /\ validation = NoValidation
    /\ sample = NoSample
    /\ backend = NoBackend
    /\ logger = NoLogger
    /\ manager = NoManager

ConcurrentNext ==
    \/ \E sql \in ConcurrentTexts : handleQueryTool(sql)
    \/ handleQueryToolReturn
    \/ disabledBegin
    \/ disabledQuery
    \/ disabledCommit
    \/ disabledRollback
    \/ isExternalTableQuery
    \/ regularBegin
    \/ regularQuery
    \/ regularCommit
    \/ regularInfo
    \/ regularRollback
    \/ secureBegin
    \/ secureQuery
    \/ secureCommit
    \/ secureRollback
    \/ traditionalWarning
    \/ traditionalBegin
    \/ traditionalQuery
    \/ traditionalCommit
    \/ traditionalInfo
    \/ traditionalRollback
    \/ traditionalError
    \/ outerCatch
    \/ release
    \/ yield

ConcurrentSpec == ConcurrentInit /\ [][ConcurrentNext]_vars

(***************************************************************************)
(* The validators called directly, as the unit tests and other callers do: *)
(* one input, drawn at the start, and the four functions applied to it in  *)
(* any order and any number of times.                                      *)
(***************************************************************************)
ValidatorFragments ==
    { <<"S","E","L","E","C","T"," ","a"," ">>,
      <<"/","*"," ","c"," ","*","/"," ">>,
      <<"x"," ","/","*"," ","d"," ","*","/"," ">>,
      <<"l","a","s","t","_","u","p","d","a","t","e"," ">>,
      <<"D","R","O","P">>,
      <<" ","\n">>,
      <<"(","m","e","r","g","e"," ">> }

ValidatorTexts ==
    { Flatten(fs) : fs \in UNION { [1..n -> ValidatorFragments] : n \in 0..MaxFrags } }

\* an identifier of more than 63 characters
LongIdentifier == [i \in 1..(IdentifierLimit + 1) |-> "a"]

Identifiers ==
    { << >>, LongIdentifier,
      <<"t">>,
      <<"e","x","t","_","1">>,
      <<"S","e","l","e","c","t">>,
      <<"a",".","b">>,
      <<"a","-","b">>,
      <<"x",".","t",";"," ","-","-","_","1">> }

ValidatorInputs ==
    { [NoValidation EXCEPT !.kind = "sql", !.input = t] : t \in ValidatorTexts }
       \cup { [NoValidation EXCEPT !.kind = "identifier", !.input = i, !.type = ty] :
                 i \in Identifiers, ty \in IdentifierTypes }

ValidatorInit ==
    /\ SPECTRUM_ENABLED = TRUE
    /\ globalLoggingManager = "set"
    /\ sqlQuery = << >>
    /\ pc = "idle"
    /\ isSelectQuery = FALSE
    /\ cmds = << >>
    /\ txState = "none"
    /\ tableReferences = << >>
    /\ isExternal = "unset"
    /\ secureError = "none"
    /\ error = "none"
    /\ outcome = Pending
    /\ invocations = 0
    /\ toolName = "none"
    /\ client = "pool"
    /\ releases = 0
    /\ response = NoResponse
    /\ conn = 0
    /\ idleTx = <<"none">>
    /\ parked = NoRequest
    /\ activeTransactions = {}
    /\ STRICT_VALIDATION = TRUE
    /\ validation \in ValidatorInputs
    /\ sample = NoSample
    /\ backend = NoBackend
    /\ logger = NoLogger
    /\ manager = NoManager

\* everything but the results of the validator calls
\* the state of the requests and of the pool
requests ==
    <<config, handler, idleTx, parked, sqlQuery, pc, isSelectQuery, cmds, txState,
      tableReferences, isExternal, secureError, error, outcome, invocations,
      activeTransactions>>

outside == <<requests, sample, backend, logger, manager>>

besideSample == <<requests, validation, backend, logger, manager>>

besideBackend == <<requests, validation, sample, logger, manager>>

besideLogger == <<requests, validation, sample, backend, manager>>

besideManager == <<requests, validation, sample, backend, logger>>

\* a call that keeps a position between calls, as a pattern with the g flag
\* does, and so matches nothing the second time
callValidateSelectOnly_Sticky ==
    /\ validation.kind = "sql"
    /\ validation' =
          [validation EXCEPT !.selectOnly =
              IF validation.selectOnly = << >>
              THEN <<validateSelectOnlyQuery(validation.input)>>
              ELSE <<FALSE>>]
    /\ UNCHANGED outside

\* validateSelectOnlyQuery(sqlQuery) called on the input
callValidateSelectOnly ==
    /\ validation.kind = "sql"
    /\ validation' =
          [validation EXCEPT !.selectOnly = <<validateSelectOnlyQuery(validation.input)>>]
    /\ UNCHANGED outside

\* a call that reports a match through logger.warning, as validateSqlQuery does
callContainsNestedModifications_Warns ==
    /\ validation.kind = "sql"
    /\ validation' =
          [validation EXCEPT
              !.nested = <<containsNestedModifications(validation.input)>>,
              !.globalLogger =
                 IF containsNestedModifications(validation.input)
                 THEN "created" ELSE @]
    /\ UNCHANGED outside

\* containsNestedModifications(sqlQuery) called on the input
callContainsNestedModifications ==
    /\ validation.kind = "sql"
    /\ validation' =
          [validation EXCEPT !.nested = <<containsNestedModifications(validation.input)>>]
    /\ UNCHANGED outside

\* logger.warning is reached: getGlobalLogger() creates the fallback logger
Warned(result) ==
    \E i \in 1..Len(result.errors) :
        result.errors[i] \in {DangerousError, InjectionError}

\* SecurityValidator.validateSqlQuery(sql) called on the input
callValidateSqlQuery ==
    /\ validation.kind = "sql"
    /\ LET result == validateSqlQueryResult(validation.input)
       IN  validation' =
             [validation EXCEPT
                 !.security = <<result>>,
                 !.globalLogger = IF Warned(result) THEN "created" ELSE @]
    /\ UNCHANGED outside

\* SecurityValidator.validateIdentifier(identifier, type) called on the input
callValidateIdentifier ==
    /\ validation.kind = "identifier"
    /\ validation' =
          [validation EXCEPT
              !.identifier = <<validateIdentifier(validation.input, validation.type)>>]
    /\ UNCHANGED outside

\* SecurityValidator.sanitizeTableName called on the input, or on what it
\* returned for the input
callSanitizeTableName ==
    /\ validation.kind = "identifier"
    /\ \/ validation' =
             [validation EXCEPT !.tableName = <<sanitizeTableName(validation.input)>>]
       \/ /\ validation.tableName # << >>
          /\ validation' =
                [validation EXCEPT
                    !.tableNameAgain = <<sanitizeTableName(validation.tableName[1])>>]
    /\ UNCHANGED outside

\* SecurityValidator.sanitizeSchemaName called on the input, or on what it
\* returned for the input
callSanitizeSchemaName ==
    /\ validation.kind = "identifier"
    /\ \/ validation' =
             [validation EXCEPT !.schemaName = <<sanitizeSchemaName(validation.input)>>]
       \/ /\ validation.schemaName # << >>
          /\ validation' =
                [validation EXCEPT
                    !.schemaNameAgain = <<sanitizeSchemaName(validation.schemaName[1])>>]
    /\ UNCHANGED outside

ValidatorNext ==
    \/ callValidateSelectOnly
    \/ callContainsNestedModifications
    \/ callValidateSqlQuery
    \/ callValidateIdentifier
    \/ callSanitizeTableName
    \/ callSanitizeSchemaName

ValidatorSpec == ValidatorInit /\ [][ValidatorNext]_vars

(***************************************************************************)
(* Sample data: the two places that serve sample rows, getSampleData of    *)
(* the database module (used by the resource handler) and the SAMPLE case  *)
(* of the server's read-resource handler.                                  *)
(***************************************************************************)
PiiColumns == {"email", "phone", "ssn", "credit_card"}

SampleColumns == PiiColumns \cup {"id"}

\* a stored value with its typeof
StoredValues ==
    { [type |-> "string", value |-> "stored"],
      [type |-> "number", value |-> "stored"],
      [type |-> "object", value |-> "null"] }

REDACTED == [type |-> "string", value |-> "REDACTED"]

\* the rows a SELECT * can return: any of the columns, any values
SampleRows == UNION { [cols -> StoredValues] : cols \in SUBSET SampleColumns }

\* the map callback of getSampleData: a column is replaced when it is in the
\* row and typeof its value is "string"
redactStrings(row) ==
    [c \in DOMAIN row |->
        IF c \in PiiColumns /\ row[c].type = "string" THEN REDACTED ELSE row[c]]

\* the map callback of the read-resource handler: email and phone are
\* replaced when they are in the row
redactEmailPhone(row) ==
    [c \in DOMAIN row |-> IF c \in {"email", "phone"} THEN REDACTED ELSE row[c]]

SamplePaths == {"getSampleData", "readResource"}

\* no request is in progress and no validator has been called
NoRequests ==
    /\ SPECTRUM_ENABLED = TRUE
    /\ globalLoggingManager = "set"
    /\ sqlQuery = << >>
    /\ pc = "idle"
    /\ isSelectQuery = FALSE
    /\ cmds = << >>
    /\ txState = "none"
    /\ tableReferences = << >>
    /\ isExternal = "unset"
    /\ secureError = "none"
    /\ error = "none"
    /\ outcome = Pending
    /\ invocations = 0
    /\ toolName = "none"
    /\ client = "pool"
    /\ releases = 0
    /\ response = NoResponse
    /\ conn = 0
    /\ idleTx = <<"none">>
    /\ parked = NoRequest
    /\ activeTransactions = {}
    /\ STRICT_VALIDATION = TRUE
    /\ validation = NoValidation

SampleInit ==
    /\ NoRequests
    /\ backend = NoBackend
    /\ logger = NoLogger
    /\ manager = NoManager
    /\ sample \in { [NoSample EXCEPT !.path = p, !.stored = <<row>>] :
                       p \in SamplePaths, row \in SampleRows }

\* DatabaseOperations.getSampleData: the query, then the redaction, or the
\* error of the query wrapped and thrown
getSampleData ==
    /\ sample.path = "getSampleData"
    /\ sample.served = << >> /\ ~sample.failed
    /\ \E ok \in BOOLEAN :
          sample' =
             IF ok
             THEN [sample EXCEPT
                      !.served = [i \in DOMAIN sample.stored |->
                                     redactStrings(sample.stored[i])]]
             ELSE [sample EXCEPT !.failed = TRUE]
    /\ UNCHANGED besideSample

\* the read-resource handler of the server, case SAMPLE
readResourceSample ==
    /\ sample.path = "readResource"
    /\ sample.served = << >> /\ ~sample.failed
    /\ \E ok \in BOOLEAN :
          sample' =
             IF ok
             THEN [sample EXCEPT
                      !.served = [i \in DOMAIN sample.stored |->
                                     redactEmailPhone(sample.stored[i])]]
             ELSE [sample EXCEPT !.failed = TRUE]
    /\ UNCHANGED besideSample

SampleNext == getSampleData \/ readResourceSample

SampleSpec == SampleInit /\ [][SampleNext]_vars

(***************************************************************************)
(* The HTTP logging backend on top of BaseLoggingBackend.  The Datadog     *)
(* backend has the same doLog, flush, doClose and sendLogs.  One step per  *)
(* await: a sendLogs call waits for the answer to its request or for the   *)
(* end of its backoff delay, and other calls run meanwhile.                *)
(***************************************************************************)
MaxEntries == 2

BatchSize == 2

MaxRetryAttempts == 1

DefaultRetries == 3

Entries == 1..MaxEntries

\* batchSize 1 sends at once; flushInterval 0 starts no timer
BackendConfigs ==
    [batchSize : {1, BatchSize}, flushInterval : {0, 1},
     retryAttempts : 1..MaxRetryAttempts]

\* response.ok, a status from 400 to 499, any other status, fetch rejecting
Answers == {"ok", "client", "server", "network"}

\* const maxRetries = httpConfig.retryAttempts || 3
maxRetries(cfg) == IF cfg.retryAttempts = 0 THEN DefaultRetries ELSE cfg.retryAttempts

\* sendLogs up to its first await: nothing without a config or entries,
\* otherwise the first request is made
sendLogs(b, by, entries) ==
    IF b.config = << >> \/ Len(entries) = 0
    THEN [b EXCEPT !.handed = Append(@, entries),
                   !.unsent = @ \cup {entries[i] : i \in DOMAIN entries}]
    ELSE [b EXCEPT !.handed = Append(@, entries),
                   !.sends = @ \cup {[by |-> by, batch |-> entries, retryCount |-> 0,
                                      maxRetries |-> maxRetries(b.config[1]),
                                      answers |-> << >>, step |-> "fetch"]}]

\* flush up to its first await: the pending logs are taken and handed to
\* sendLogs
flush(b, by) ==
    IF Len(b.pendingLogs) = 0
    THEN b
    ELSE sendLogs([b EXCEPT !.pendingLogs = << >>], by, b.pendingLogs)

\* BaseLoggingBackend.initialize with a valid configuration; doInitialize
\* registers the interval timer
backendInitialize ==
    /\ ~backend.isInitialized
    /\ \E cfg \in BackendConfigs :
          backend' = [backend EXCEPT
                         !.config = <<cfg>>,
                         !.timers = IF cfg.flushInterval > 0 THEN @ + 1 ELSE @,
                         !.isInitialized = TRUE,
                         !.closing = "none"]
    /\ UNCHANGED besideBackend

\* doLog of the HTTP backend
doLog(b, entry) ==
    IF b.config[1].batchSize > 1
    THEN LET pushed == [b EXCEPT !.pendingLogs = Append(@, entry),
                                 !.placed = @ \cup {entry}]
         IN  IF Len(pushed.pendingLogs) >= b.config[1].batchSize
             THEN flush(pushed, "log")
             ELSE pushed
    ELSE sendLogs(b, "log", <<entry>>)

\* BaseLoggingBackend.log: ensureInitialized throws into the catch of log,
\* which reports the entry and drops it
backendLog ==
    /\ \E entry \in Entries \ backend.logged :
          LET called == [backend EXCEPT !.logged = @ \cup {entry}]
          IN  backend' = IF ~called.isInitialized \/ called.config = << >>
                         THEN called
                         ELSE doLog(called, entry)
    /\ UNCHANGED besideBackend

\* the setInterval callback of doInitialize
periodicFlush ==
    /\ backend.timers > 0
    /\ backend' = flush(backend, "timer")
    /\ UNCHANGED besideBackend

\* what follows the end of a sendLogs call in its caller: close resets the
\* state when doClose returned and only reports the error when it threw; log
\* and the timer callback report the error
sendEnds(b, send, how) ==
    LET rest == [b EXCEPT !.sends = @ \ {send}]
    IN  IF send.by # "close"
        THEN rest
        ELSE IF how = "returned"
             THEN [rest EXCEPT !.isInitialized = FALSE, !.config = << >>,
                               !.closing = "returned"]
             ELSE [rest EXCEPT !.closing = "returned"]

\* BaseLoggingBackend.close: the timers are cleared, doClose flushes, and
\* the state is reset when doClose has returned
backendClose ==
    /\ backend.closing # "doClose"
    /\ LET flushed == flush([backend EXCEPT !.timers = 0], "close")
       IN  backend' =
              IF \E send \in flushed.sends : send.by = "close"
              THEN [flushed EXCEPT !.closing = "doClose"]
              ELSE [flushed EXCEPT !.isInitialized = FALSE, !.config = << >>,
                                   !.closing = "returned"]
    /\ UNCHANGED besideBackend

\* the body of the while loop of sendLogs after the answer to its request
answered(b, send, answer) ==
    LET next == [send EXCEPT !.answers = Append(@, answer),
                             !.retryCount = @ + 1, !.step = "delay"]
        again == [b EXCEPT !.sends = (@ \ {send}) \cup {next}]
    IN  CASE answer = "ok" -> sendEnds(b, send, "returned")
          [] answer = "server" ->
                IF next.retryCount <= send.maxRetries
                THEN again
                ELSE sendEnds(b, send, "returned")
          [] OTHER ->
                IF next.retryCount > send.maxRetries
                THEN sendEnds(b, send, "thrown")
                ELSE again

fetchAnswers ==
    /\ \E send \in backend.sends :
          /\ send.step = "fetch"
          /\ \E answer \in Answers : backend' = answered(backend, send, answer)
    /\ UNCHANGED besideBackend

\* the backoff delay is over: the loop makes its next request
delayEnds ==
    /\ \E send \in backend.sends :
          /\ send.step = "delay"
          /\ backend' = [backend EXCEPT
                            !.sends = (@ \ {send}) \cup {[send EXCEPT !.step = "fetch"]}]
    /\ UNCHANGED besideBackend

BackendInit ==
    /\ NoRequests
    /\ sample = NoSample
    /\ backend = NoBackend
    /\ logger = NoLogger
    /\ manager = NoManager

BackendNext ==
    \/ backendInitialize
    \/ backendLog
    \/ periodicFlush
    \/ backendClose
    \/ fetchAnswers
    \/ delayEnds

BackendSpec == BackendInit /\ [][BackendNext]_vars

(***************************************************************************)
(* The global logger module: getGlobalLogger, initializeGlobalLogger,      *)
(* setGlobalLogger and the close method of the console fallback logger.    *)
(***************************************************************************)
MaxCalls == 3

\* initializeGlobalLogger up to its first await, from the state lg; loaded
\* says whether loadWinstonLoggingConfig and the constructor returned
initializeStarts(lg, loaded) ==
    IF lg.globalLogger # "null"
    THEN lg
    ELSE IF loaded
         THEN [lg EXCEPT !.globalLogger = "winston", !.init = "initializing"]
         ELSE [lg EXCEPT !.globalLogger = "fallback", !.fallbacks = TRUE]

\* getGlobalLogger: with no logger set, the fallback is created and stored,
\* then initializeGlobalLogger is called, which finds a logger stored
getGlobalLogger ==
    /\ Len(logger.returned) < MaxCalls
    /\ \E loaded \in BOOLEAN :
          LET made == [logger EXCEPT !.globalLogger = "fallback", !.fallbacks = TRUE]
              started == initializeStarts(made, loaded)
              now == IF logger.globalLogger = "null"
                     THEN [started EXCEPT
                              !.asyncInit = IF started.init = "initializing"
                                            THEN "initializing" ELSE "returned"]
                     ELSE logger
          IN  logger' = [now EXCEPT !.returned = Append(@, now.globalLogger)]
    /\ UNCHANGED besideLogger

\* initializeGlobalLogger called by the server at startup
initializeGlobalLogger ==
    /\ logger.init # "initializing"
    /\ \E loaded \in BOOLEAN : logger' = initializeStarts(logger, loaded)
    /\ UNCHANGED besideLogger

\* await globalLogger.initialize() is over: on an error the catch stores a
\* fallback logger
initializeEnds ==
    /\ logger.init = "initializing"
    /\ \E ok \in BOOLEAN :
          logger' = IF ok
                    THEN [logger EXCEPT !.init = "none",
                             !.asyncInit = IF @ = "initializing" THEN "returned" ELSE @]
                    ELSE [logger EXCEPT !.init = "none", !.globalLogger = "fallback",
                             !.fallbacks = TRUE,
                             !.asyncInit = IF @ = "initializing" THEN "returned" ELSE @]
    /\ UNCHANGED besideLogger

\* setGlobalLogger(logger) with a logger of the caller
setGlobalLogger ==
    /\ logger.globalLogger # "custom"
    /\ logger' = [logger EXCEPT !.globalLogger = "custom", !.asyncInit = "none"]
    /\ UNCHANGED besideLogger

\* close() of a fallback logger: globalLogger = null
fallbackClose ==
    /\ logger.fallbacks
    /\ logger.globalLogger # "null"
    /\ logger' = [logger EXCEPT !.globalLogger = "null", !.asyncInit = "none"]
    /\ UNCHANGED besideLogger

LoggerInit ==
    /\ NoRequests
    /\ sample = NoSample
    /\ backend = NoBackend
    /\ logger = NoLogger
    /\ manager = NoManager

LoggerNext ==
    \/ getGlobalLogger
    \/ initializeGlobalLogger
    \/ initializeEnds
    \/ setGlobalLogger
    \/ fallbackClose

LoggerSpec == LoggerInit /\ [][LoggerNext]_vars

(***************************************************************************)
(* LoggingManager: initialize, log, the batch flush timer and close.  The  *)
(* entries are counted; a call of a backend's log or logBatch may raise.   *)
(***************************************************************************)
MaxLogs == 11

BATCH_SIZE_THRESHOLD == 10

BackendNames == {"console", "http"}

\* the entries go to the backends one after the other and the first error
\* ends the delivery and rejects (mutant)
deliver_FailFast(m, count, raised) ==
    LET called == IF "console" \in m.backends \cap raised
                  THEN {"console"}
                  ELSE m.backends
    IN  [m EXCEPT !.last = [to |-> m.backends, called |-> called,
                            raised |-> raised \cap called, batch |-> count > 1],
                  !.rejected = @ \/ (raised \cap called # {})]

\* [...this.backends.values()].map(async (backend) => { try { await
\* backend.log / logBatch } catch { console.error } }), then allSettled:
\* every registered backend is called, an error is reported and dropped
deliver(m, count, raised) ==
    [m EXCEPT !.last = [to |-> m.backends, called |-> m.backends,
                        raised |-> raised \cap m.backends, batch |-> count > 1]]

flushPendingEntries(m, raised) ==
    IF m.pendingEntries = 0
    THEN m
    ELSE deliver([m EXCEPT !.batchFlushTimer = "undefined",
                           !.pendingEntries = 0,
                           !.lost = @ \/ (m.backends = {})],
                 m.pendingEntries, raised)

scheduleBatchFlush(m) ==
    IF m.batchFlushTimer = "undefined"
    THEN [m EXCEPT !.batchFlushTimer = "armed"]
    ELSE m

shouldUseBatchProcessing(m) ==
    Cardinality(m.backends) > 1 \/ m.pendingEntries > 0

\* LoggingManager.log with logging enabled, up to its await
managerLog(m, raised) ==
    IF shouldUseBatchProcessing(m)
    THEN LET pushed == [m EXCEPT !.pendingEntries = @ + 1]
         IN  IF pushed.pendingEntries >= BATCH_SIZE_THRESHOLD
             THEN flushPendingEntries(pushed, raised)
             ELSE scheduleBatchFlush(pushed)
    ELSE deliver(m, 1, raised)

\* a caller logs (log, debug, info, warning, error)
logCalled ==
    /\ manager.calls < MaxLogs
    /\ \E raised \in SUBSET BackendNames :
          manager' = [managerLog(manager, raised) EXCEPT !.calls = @ + 1]
    /\ UNCHANGED besideManager

\* the setTimeout callback of scheduleBatchFlush
timerExpires ==
    /\ manager.batchFlushTimer = "armed"
    /\ \E raised \in SUBSET BackendNames :
          manager' = IF manager.pendingEntries = 0
                     THEN [manager EXCEPT !.batchFlushTimer = "fired"]
                     ELSE flushPendingEntries(manager, raised)
    /\ UNCHANGED besideManager

\* initialize up to the await of the backends' initialization
managerInitialize ==
    /\ ~manager.isInitialized
    /\ ~manager.starting
    /\ manager' = [manager EXCEPT !.starting = TRUE, !.todo = BackendNames]
    /\ UNCHANGED besideManager

\* createBackend and backend.initialize of one backend are over: the
\* backend is registered, or the error is reported
backendReady ==
    /\ \E name \in manager.todo, ok \in BOOLEAN :
          manager' = [manager EXCEPT
                         !.todo = @ \ {name},
                         !.backends = IF ok THEN @ \cup {name} ELSE @]
    /\ UNCHANGED besideManager

\* initialize after Promise.allSettled: isInitialized = true, then the
\* manager logs that it is initialized
managerInitialized ==
    /\ manager.starting
    /\ manager.todo = {}
    /\ \E raised \in SUBSET BackendNames :
          manager' = managerLog([manager EXCEPT !.starting = FALSE,
                                                !.isInitialized = TRUE], raised)
    /\ UNCHANGED besideManager

\* close up to its first await: clearTimeout without resetting the field,
\* then flushPendingEntries
managerClose ==
    /\ ~manager.closing
    /\ \E raised \in SUBSET BackendNames :
          manager' =
             [flushPendingEntries(
                 [manager EXCEPT
                     !.batchFlushTimer = IF @ = "armed" THEN "cleared" ELSE @],
                 raised)
              EXCEPT !.closing = TRUE]
    /\ UNCHANGED besideManager

\* close after the backends are flushed and closed
managerClosed ==
    /\ manager.closing
    /\ manager' = [manager EXCEPT !.backends = {}, !.isInitialized = FALSE,
                                  !.closing = FALSE]
    /\ UNCHANGED besideManager

ManagerInit ==
    /\ NoRequests
    /\ sample = NoSample
    /\ backend = NoBackend
    /\ logger = NoLogger
    /\ manager = NoManager

ManagerNext ==
    \/ logCalled
    \/ timerExpires
    \/ managerInitialize
    \/ backendReady
    \/ managerInitialized
    \/ managerClose
    \/ managerClosed

ManagerSpec == ManagerInit /\ [][ManagerNext]_vars

TypeOK ==
    /\ SPECTRUM_ENABLED \in BOOLEAN
    /\ globalLoggingManager \in {"null", "set"}
    /\ txState \in {"none", "ro", "rw"}
    /\ isExternal \in {"unset", "true", "false"}
    /\ outcome.kind \in {"pending", "rows", "thrown"}
    /\ invocations \in 0..MaxInvocations
    /\ client \in {"pool", "held", "returned"}
    /\ releases \in Nat
    /\ response.isError \in BOOLEAN
    /\ conn \in 0..Len(idleTx)
    /\ \A c \in DOMAIN idleTx : idleTx[c] \in {"none", "ro", "rw"}
    /\ parked.conn \in 0..Len(idleTx)
    /\ STRICT_VALIDATION \in BOOLEAN
    /\ validation.kind \in {"none", "sql", "identifier"}
    /\ sample.path \in SamplePaths \cup {"none"}
    /\ sample.failed \in BOOLEAN
    /\ backend.isInitialized \in BOOLEAN
    /\ backend.timers \in 0..1
    /\ backend.closing \in {"none", "doClose", "returned"}
    /\ \A send \in backend.sends : send.retryCount \in 0..send.maxRetries
    /\ logger.globalLogger \in {"null", "fallback", "winston", "custom"}
    /\ Len(logger.returned) \in 0..MaxCalls
    /\ manager.backends \subseteq BackendNames
    /\ manager.pendingEntries \in 0..(BATCH_SIZE_THRESHOLD - 1)
    /\ manager.batchFlushTimer \in {"undefined", "armed", "cleared", "fired"}
    /\ manager.calls \in 0..MaxLogs
    /\ activeTransactions \subseteq
          ({"database.query", "spectrum_fallback"} \X (1..Len(idleTx)))

(***************************************************************************)
(* Properties.  cmds is the sequence of commands the current invocation    *)
(* has sent on its connection.                                             *)
(***************************************************************************)
Idx == DOMAIN cmds

IsBegin(i) == cmds[i].cmd \in {"BEGIN", "BEGIN_RO"}

\* a command that ends a transaction: a COMMIT that succeeded, or a ROLLBACK
IsTerminator(i) ==
    \/ cmds[i].cmd = "ROLLBACK"
    \/ cmds[i].cmd = "COMMIT" /\ cmds[i].ok

\* the terminators sent after the BEGIN at i and before the next BEGIN
TerminatorsAfter(i) ==
    { j \in Idx : /\ j > i
                  /\ IsTerminator(j)
                  /\ \A k \in Idx : (i < k /\ k < j) => ~IsBegin(k) }

\* the commands of executeSpectrumQuery's own read-only transaction
MainCmds == SelectSeq(cmds, LAMBDA c : c.by = "main")

AllOkAfter(i) == \A j \in Idx : j > i => cmds[j].ok

RollbackPcs ==
    {"disabled_rollback", "regular_rollback", "secure_rollback",
     "traditional_rollback"}

\* C1: a statement the validator rejects sends no command at all on the
\* connection: no transaction is opened and nothing is executed.
C1_RejectedSendsNothing ==
    (toolName = "query" /\ pc # "idle" /\ ~isSelectQuery) => cmds = << >>

C1_Witness ==
    /\ pc = "done"
    /\ sqlQuery # << >>
    /\ ~isSelectQuery
    /\ cmds = << >>

\* C2: when the invocation has ended, every transaction that was opened
\* has been ended by exactly one command (a COMMIT that succeeded or a
\* ROLLBACK) before the next BEGIN.
C2_EveryBeginEndedOnce ==
    pc = "done" =>
       \A i \in Idx :
          (IsBegin(i) /\ cmds[i].ok) => Cardinality(TerminatorsAfter(i)) = 1

\* C3: when the checks at the head of the elevated path fail, no BEGIN and
\* no statement are sent, and the invocation ends with that rejection.
C3_RevalidationFailureSendsNothing ==
    secureError \in {"validation", "nested"} =>
       /\ \A i \in Idx : cmds[i].cmd \notin {"BEGIN", "BEGIN_RO", "QUERY"}
       /\ pc = "done" =>
             /\ outcome.kind = "thrown"
             /\ outcome.cause \in {secureError, "log"}

\* C4: a read-write BEGIN is sent only when the integration is enabled, the
\* statement passed validation and a catalog lookup answered that a
\* referenced table is federated.
C4_ReadWriteBeginOnlyWhenFederated ==
    \A i \in Idx :
       cmds[i].cmd = "BEGIN" =>
          /\ SPECTRUM_ENABLED
          /\ isSelectQuery
          /\ isExternal = "true"
          /\ \E j \in Idx : /\ j < i
                            /\ cmds[j].cmd = "LOOKUP"
                            /\ cmds[j].ok
                            /\ cmds[j].found

C4_Witness ==
    \E i \in Idx : cmds[i].cmd = "BEGIN" /\ cmds[i].by = "secure" /\ cmds[i].ok

\* C5: a catalog lookup that fails makes the statement not federated: the
\* next command is the read-only BEGIN, no read-write BEGIN is sent, and
\* when every later command succeeds the caller gets the rows (or the error
\* of a log call), never the lookup's error.
C5_LookupErrorMeansReadOnly ==
    \A i \in Idx :
       (cmds[i].cmd = "LOOKUP" /\ ~cmds[i].ok) =>
          /\ isExternal = "false"
          /\ \A j \in Idx : cmds[j].cmd # "BEGIN"
          /\ i < Len(cmds) => cmds[i + 1].cmd = "BEGIN_RO"
          /\ i = Len(cmds) => pc = "regular_begin"
          /\ (pc = "done" /\ AllOkAfter(i)) =>
                \/ outcome.kind = "rows"
                \/ outcome.kind = "thrown" /\ outcome.cause = "log"

C5_Witness ==
    /\ pc = "done"
    /\ outcome.kind = "rows"
    /\ \E i \in Idx : cmds[i].cmd = "LOOKUP" /\ ~cmds[i].ok

\* C6: on the read-only path, once the read-only BEGIN has succeeded, the
\* commands are BEGIN, the statement, COMMIT when the statement and the
\* COMMIT succeed, and BEGIN, the statement, ROLLBACK when the statement
\* fails; a COMMIT that succeeded is never followed by a ROLLBACK.
C6_ReadOnlyPathSequence ==
    (/\ pc = "done"
     /\ isSelectQuery
     /\ isExternal # "true"
     /\ Len(MainCmds) >= 1
     /\ MainCmds[1].ok) =>
       /\ Len(MainCmds) >= 3
       /\ MainCmds[1].cmd = "BEGIN_RO"
       /\ MainCmds[2].cmd = "QUERY"
       /\ IF MainCmds[2].ok
          THEN /\ MainCmds[3].cmd = "COMMIT"
               /\ MainCmds[3].ok => Len(MainCmds) = 3
          ELSE /\ MainCmds[3].cmd = "ROLLBACK"
               /\ Len(MainCmds) = 3

\* C7: when the statement fails and the ROLLBACK that follows fails too,
\* the error that leaves the function is the statement's (or, at the
\* caller, that of a log call), not the ROLLBACK's.
C7_RollbackFailureKeepsOriginalError ==
    \A i \in Idx :
       (/\ i < Len(cmds)
        /\ cmds[i].cmd = "QUERY"
        /\ ~cmds[i].ok
        /\ cmds[i + 1].cmd = "ROLLBACK"
        /\ ~cmds[i + 1].ok) =>
          /\ cmds[i].by = "secure" => secureError = "query"
          /\ (cmds[i].by # "secure" /\ pc = "done") =>
                outcome.cause \in {"query", "log"}

\* C8: a statement that fails inside an open transaction is followed by a
\* ROLLBACK on the same connection before anything else is sent and before
\* the error leaves the function or the fallback starts.
C8_FailedStatementIsRolledBack ==
    \A i \in Idx :
       (cmds[i].cmd = "QUERY" /\ ~cmds[i].ok) =>
          /\ i < Len(cmds) =>
                cmds[i + 1].cmd = "ROLLBACK" /\ cmds[i + 1].by = cmds[i].by
          /\ i = Len(cmds) => pc \in RollbackPcs /\ outcome = Pending

C8_Witness ==
    \E i \in Idx :
       /\ cmds[i].cmd = "QUERY"
       /\ cmds[i].by = "secure"
       /\ ~cmds[i].ok
       /\ i + 1 < Len(cmds)
       /\ cmds[i + 1].cmd = "ROLLBACK"
       /\ cmds[i + 2].by = "traditional"

\* C9: the fallback sends its BEGIN only after the elevated path opened a
\* transaction, failed in it and sent its ROLLBACK.
C9_FallbackBeginAfterSecureRollback ==
    \A j \in Idx :
       (cmds[j].cmd = "BEGIN" /\ cmds[j].by = "traditional") =>
          \E b, q, r \in Idx :
             /\ b < q /\ q < r /\ r < j
             /\ cmds[b].by = "secure" /\ cmds[b].cmd = "BEGIN" /\ cmds[b].ok
             /\ cmds[q].by = "secure" /\ cmds[q].cmd \in {"QUERY", "COMMIT"}
             /\ ~cmds[q].ok
             /\ cmds[r].by = "secure" /\ cmds[r].cmd = "ROLLBACK"

C11_FailureFormMatchesCause ==
    (pc = "responded" /\ toolName = "query" /\ response.isError) =>
       (~isSelectQuery <=> response.text = "Security validation failed")

\* C12: the observability sink has no effect on the router: the error of a
\* log call is never the error the router propagates (which would send a
\* ROLLBACK that the run without a sink does not send) and never the error
\* the caller receives.
C12_LogFailureHasNoEffect ==
    /\ error # "log"
    /\ outcome.cause # "log"

\* the transaction mode of the path the function by runs the statement on
ModeOf(by) == IF by = "main" THEN "ro" ELSE "rw"

\* C13: the statement is sent only while a transaction is open that the
\* same invocation opened (a BEGIN of its own succeeded on a connection with
\* no transaction open, and no COMMIT or ROLLBACK has succeeded since), and
\* the mode of the open transaction is the mode of the path.
C13_StatementInsideOwnTransaction ==
    \A i \in Idx :
       cmds[i].cmd = "QUERY" =>
          /\ cmds[i].tx = ModeOf(cmds[i].by)
          /\ \E b \in Idx :
                /\ b < i
                /\ IsBegin(b)
                /\ cmds[b].ok
                /\ cmds[b].tx = "none"
                /\ \A k \in Idx :
                      (b < k /\ k < i /\ cmds[k].cmd \in {"COMMIT", "ROLLBACK"})
                         => ~cmds[k].ok

\* the statement completed on the fallback path
ViaFallback ==
    \E i \in Idx :
       cmds[i].by = "traditional" /\ cmds[i].cmd = "COMMIT" /\ cmds[i].ok

\* the response of the query tool for a statement that completed
SuccessResponse ==
    ToolResponse(FALSE, "Query executed successfully with Spectrum support", "none")

AfterLookups ==
    LET rest == SelectSeq(cmds, LAMBDA c : c.cmd # "LOOKUP")
    IN  [i \in 1..Len(rest) |-> <<rest[i].by, rest[i].cmd>>]

\* C15: for a statement that passes validation and the checks of the
\* elevated path and references a federated table, when every command sent
\* succeeds the invocation sends exactly BEGIN, the statement and COMMIT
\* from executeSecureSpectrumQuery, in that order, sends no ROLLBACK, does
\* not enter the fallback, and returns the rows.
C15_ElevatedPathSuccess ==
    (/\ pc = "done"
     /\ isSelectQuery
     /\ isExternal = "true"
     /\ secureError \notin {"validation", "nested"}
     /\ \A i \in Idx : cmds[i].ok) =>
       /\ AfterLookups = << <<"secure", "BEGIN">>, <<"secure", "QUERY">>,
                            <<"secure", "COMMIT">> >>
       /\ secureError = "none"
       /\ outcome = Rows

C15_Witness ==
    /\ pc = "done"
    /\ isExternal = "true"
    /\ outcome = Rows
    /\ \A i \in Idx : cmds[i].ok
    /\ \E i \in Idx : cmds[i].by = "secure" /\ cmds[i].cmd = "COMMIT"

\* C16: with federated-table support disabled no catalog lookup and no
\* read-write BEGIN is sent: a statement that passed validation, whatever
\* tables it names, starts with the read-only BEGIN and its statement is
\* sent by the read-only path.
C16_DisabledMeansReadOnly ==
    (~SPECTRUM_ENABLED /\ toolName = "query") =>
       /\ \A i \in Idx : cmds[i].cmd \notin {"LOOKUP", "BEGIN"}
       /\ \A i \in Idx : cmds[i].by = "main"
       /\ cmds # << >> => cmds[1].cmd = "BEGIN_RO"
       /\ isExternal = "unset"
       /\ (isSelectQuery /\ pc # "idle") =>
             pc \in {"disabled_begin", "disabled_query", "disabled_commit",
                     "disabled_rollback", "catch", "done", "responded"}

C16_Witness ==
    /\ ~SPECTRUM_ENABLED
    /\ pc = "done"
    /\ outcome = Rows
    /\ \E i \in Idx : cmds[i].cmd = "QUERY" /\ cmds[i].tx = "ro"
    /\ ExtractTableReferences(sqlQuery) # << >>

\* the references the catalog has been asked about, in order
LookedUp ==
    LET ls == SelectSeq(cmds, LAMBDA c : c.cmd = "LOOKUP")
    IN  [i \in 1..Len(ls) |-> ls[i].arg]

\* C17: the catalog is asked about the extracted references one after the
\* other; an answer that a reference is federated, at whatever position and
\* after whatever non-failing answers, makes the statement federated and
\* sends it to the elevated path, and the statement is classified as not
\* federated without a failed lookup only after every reference was asked
\* about and none was reported.
C17_AnyFederatedReferenceEscalates ==
    /\ pc = "lookup" => LookedUp \o tableReferences = ExtractTableReferences(sqlQuery)
    /\ \A i \in Idx :
          cmds[i].cmd = "LOOKUP" =>
             /\ cmds[i].found =>
                   /\ isExternal = "true"
                   /\ pc \notin {"lookup", "regular_begin"}
                   /\ \A j \in Idx : j > i => cmds[j].by \in {"secure", "traditional"}
             /\ (cmds[i].ok /\ ~cmds[i].found /\ i = Len(cmds)) =>
                   \/ pc = "lookup"
                   \/ pc = "regular_begin" /\ tableReferences = << >>
    /\ (isExternal = "false" /\ \A i \in Idx : cmds[i].ok) =>
          /\ tableReferences = << >>
          /\ \A i \in Idx : ~cmds[i].found

C17_Witness ==
    /\ pc = "secure"
    /\ Len(cmds) = 2
    /\ cmds[1].cmd = "LOOKUP" /\ cmds[1].ok /\ ~cmds[1].found
    /\ cmds[2].cmd = "LOOKUP" /\ cmds[2].found

\* C18: a request that borrowed a connection holds it while it runs and has
\* released it exactly once when it is over, whether it ended with a result,
\* a rejection, the unknown-tool answer or an exception; every command was
\* sent while the connection was held, none after its release.
C18_ReleasedExactlyOnce ==
    /\ releases <= 1
    /\ client = "held" => releases = 0 /\ pc # "idle"
    /\ client = "returned" => releases = 1 /\ pc = "idle"
    /\ pc = "idle" => client # "held"
    /\ pc \notin {"idle", "responded"} => client = "held"
    /\ \A i \in Idx : cmds[i].held

C18_Witness ==
    /\ pc = "idle"
    /\ client = "returned"
    /\ releases = 1
    /\ invocations >= 1

\* the two requests in flight hold different connections, and the commands
\* of each were sent on the connection it held
OwnConnection ==
    /\ (conn # 0 /\ parked.conn # 0) => conn # parked.conn
    /\ client = "held" <=> conn # 0
    /\ parked.client = "held" <=> parked.conn # 0
    /\ \A i \in Idx : cmds[i].held
    /\ \A i \in DOMAIN parked.cmds : parked.cmds[i].held

\* a step of the running request: the other request, the configuration and
\* the pool's record of every other connection stay as they are
OwnStep ==
    /\ parked' = parked
    /\ config' = config
    /\ \A c \in DOMAIN idleTx : c # conn => idleTx'[c] = idleTx[c]

\* the running request and the other one change places, each as it was
Exchange ==
    /\ parked' = Running
    /\ Running' = parked
    /\ UNCHANGED <<config, idleTx>>

\* C19: with two requests in flight, each holds a connection of its own, so
\* that their commands never share a connection; a step of one request
\* changes nothing of the other and nothing both read, and waiting at an
\* await changes nothing of either; what holds of the commands and the
\* release of a request that runs alone holds of each of the two.
C19_RequestsAreIndependent ==
    /\ [](OwnConnection /\ C15_ElevatedPathSuccess /\ C18_ReleasedExactlyOnce)
    /\ [][Exchange \/ OwnStep]_vars

C19_Witness ==
    /\ conn # 0
    /\ parked.conn # 0
    /\ pc \notin {"idle", "responded"}
    /\ parked.pc \notin {"idle", "responded"}
    /\ \E i \in Idx : cmds[i].cmd = "QUERY"
    /\ \E i \in DOMAIN parked.cmds : parked.cmds[i].cmd = "QUERY"

\* the executions of the statement the function by has asked for
Executions(by) == {i \in Idx : cmds[i].cmd = "QUERY" /\ cmds[i].by = by}

\* handleQueryTool has called executeSpectrumQuery
RouterInvoked == toolName = "query" /\ response.cause # "security"

\* how far down executeSpectrumQuery the invocation stands
Stage ==
    <<"idle", "responded", "done", "catch", "traditional_error",
      "traditional_rollback", "traditional_info", "traditional_commit",
      "traditional_query", "traditional_begin", "traditional_warning",
      "secure_rollback", "secure_commit", "secure_query", "secure",
      "disabled_rollback", "disabled_commit", "disabled_query", "disabled_begin",
      "regular_rollback", "regular_info", "regular_commit", "regular_query",
      "regular_begin", "lookup">>

\* a bound on the steps the invocation has left: its stage, and at the
\* lookups the references yet to be asked about
StepsLeft ==
    (CHOOSE k \in DOMAIN Stage : Stage[k] = pc) * (MaxFrags + 2)
       + Len(tableReferences)

\* C20: an invocation of the router sends the statement at most once on each
\* path and at most twice in all, the second time on the fallback path after
\* the elevated path failed; the fallback path is begun at most once; the
\* invocation has delivered nothing before it ends and rows or an error when
\* it has ended; and every step takes the invocation nearer to its end, so
\* that it ends.
C20_TerminatesWithoutRetry ==
    /\ [](RouterInvoked =>
            /\ \A by \in {"main", "secure", "traditional"} :
                  Cardinality(Executions(by)) <= 1
            /\ Cardinality({i \in Idx : cmds[i].cmd = "QUERY"}) <= 2
            /\ Executions("main") # {} =>
                  Executions("secure") = {} /\ Executions("traditional") = {}
            /\ Cardinality({i \in Idx : cmds[i].by = "traditional"
                                        /\ cmds[i].cmd = "BEGIN"}) <= 1
            /\ (\E i \in Idx : cmds[i].by = "traditional") => secureError # "none"
            /\ pc \in {"done", "responded"} <=> outcome.kind \in {"rows", "thrown"}
            /\ (pc \in {"done", "responded"} /\ cmds = << >>) =>
                  outcome.kind = "thrown")
    /\ [][RouterInvoked => StepsLeft' < StepsLeft]_vars

C20_Witness ==
    /\ pc = "done"
    /\ outcome.kind = "rows"
    /\ \E i \in Executions("secure") : ~cmds[i].ok
    /\ \E i \in Executions("traditional") : cmds[i].ok

(***************************************************************************)
(* Validation of the SQL text, claims C21 to C30.                          *)
(***************************************************************************)
\* the eleven keywords of the first three dangerousPatterns
DangerousOperations == DangerousKeywords \cup PrivilegeKeywords \cup ExecKeywords

\* the query tool answers with the security failure
SecurityFailure ==
    /\ pc = "responded"
    /\ toolName = "query"
    /\ response.isError
    /\ response.text = "Security validation failed"
    /\ response.cause = "security"
    /\ Len(response.errors) > 0
    /\ cmds = << >>

\* C21: a query-tool request whose text holds a dangerous keyword as a whole
\* word, in any letter case, is answered with the error response "Security
\* validation failed" whose first error is "Potentially dangerous SQL pattern
\* detected", and no command is issued for it.
C21_DangerousKeywordRejected ==
    /\ [](response.cause = "security" => SecurityFailure)
    /\ [][(pc = "idle" /\ toolName' = "query")
             => \/ /\ SecurityFailure'
                   /\ Head(response'.errors) = DangerousError
                \/ LET lowered == toLowerCase(sqlQuery')
                   IN  ~HasWord(lowered, DangerousOperations)]_vars

C21_Witness ==
    /\ SecurityFailure
    /\ Head(response.errors) = DangerousError
    /\ sqlQuery = <<"S","E","L","E","C","T"," ","a"," ","D","R","O","P"," ">>

\* validateSelectOnlyQuery has been called on the input
SelectOnlyCalled == validation.kind = "sql" /\ validation.selectOnly # << >>

\* the thirteen keywords of the prohibitedPatterns
SelectOnlyKeywords == ModificationKeywords \cup PrivilegeKeywords \cup CallKeywords

\* the input as the validators match it
Matched == toLowerCase(trim(validation.input))

\* C22: validateSelectOnlyQuery returns false for every text that holds one of
\* the thirteen keywords as a whole word, in any letter case and at any
\* position, the end of the text and before punctuation included.
C22_WholeWordRejected ==
    (SelectOnlyCalled /\ HasWord(Matched, SelectOnlyKeywords))
       => validation.selectOnly = <<FALSE>>

\* the text begins with one block comment, which ends at its first */, and
\* this is the index after it; 1 if the text begins with no comment
AfterLeadingComment(s) ==
    IF /\ LitAt(s, 1, <<"/","*">>)
       /\ \E k \in 3..(Len(s) - 1) : LitAt(s, k, <<"*","/">>)
    THEN 2 + CHOOSE k \in 3..(Len(s) - 1) :
                /\ LitAt(s, k, <<"*","/">>)
                /\ \A j \in 3..(k - 1) : ~LitAt(s, j, <<"*","/">>)
    ELSE 1

\* after one optional leading block comment and white space, the trimmed
\* text begins with SELECT and white space
BeginsWithSelect(s) == SelectAt(s, AfterLeadingComment(s))

\* C23: validateSelectOnlyQuery returns false for every text that, trimmed
\* and with one optional leading block comment and white space skipped, does
\* not begin with SELECT followed by white space.
C23_NonSelectRejected ==
    (SelectOnlyCalled /\ ~BeginsWithSelect(Matched))
       => validation.selectOnly = <<FALSE>>

\* a SELECT in which "update" occurs, and no prohibited keyword stands as a
\* word of its own
UpdateInsideIdentifier ==
    /\ SelectAt(Matched, 1)
    /\ includes(Matched, <<"u","p","d","a","t","e">>)
    /\ ~HasWord(Matched, SelectOnlyKeywords \cup { <<"s","e","t">> })

\* C24 as stated: validateSelectOnlyQuery returns false for a SELECT in which
\* a mutation keyword occurs only as part of an identifier.
C24_IdentifierSubstringRejected ==
    (SelectOnlyCalled /\ UpdateInsideIdentifier) => validation.selectOnly = <<FALSE>>

\* C24: validateSelectOnlyQuery returns true for a SELECT in which a mutation
\* keyword occurs only as part of a longer identifier (last_update), since
\* each prohibited pattern asks for a word boundary before the keyword and
\* white space after it.
C24_IdentifierSubstringAccepted ==
    (SelectOnlyCalled /\ UpdateInsideIdentifier) => validation.selectOnly = <<TRUE>>

C24_Witness ==
    /\ SelectOnlyCalled
    /\ UpdateInsideIdentifier
    /\ validation.selectOnly = <<TRUE>>
    /\ validation.nested # << >>

\* no validator has been called on the input yet
Uncalled ==
    /\ validation.selectOnly = << >>
    /\ validation.nested = << >>
    /\ validation.security = << >>

\* C25: validateSelectOnlyQuery and containsNestedModifications are total:
\* on every input each returns a boolean, and a call changes nothing but the
\* value it returns.
C25_ValidatorsAreTotal ==
    /\ []((validation.kind = "sql" /\ Uncalled) =>
            /\ validateSelectOnlyQuery(validation.input) \in BOOLEAN
            /\ containsNestedModifications(validation.input) \in BOOLEAN)
    /\ [](/\ \A i \in DOMAIN validation.selectOnly :
                 validation.selectOnly[i] \in BOOLEAN
          /\ \A i \in DOMAIN validation.nested :
                 validation.nested[i] \in BOOLEAN)
    /\ [][(/\ validation'.security = validation.security
           /\ validation'.identifier = validation.identifier)
             => /\ validation'.globalLogger = validation.globalLogger
                /\ validation'.input = validation.input
                /\ UNCHANGED outside]_vars

C25_Witness ==
    /\ validation.selectOnly = <<FALSE>>
    /\ validation.nested = <<TRUE>>
    /\ validation.security = << >>
    /\ validation.globalLogger = "unset"

Returned == validation.security \o validation.identifier

\* C27: every ValidationResult of validateSqlQuery and validateIdentifier has
\* isValid true exactly when its error list is empty, whichever return
\* statement produced it, and is not changed after it was returned.
C27_ValidIffNoErrors ==
    /\ [](\A i \in DOMAIN Returned :
             Returned[i].isValid <=> Len(Returned[i].errors) = 0)
    /\ [](response.cause = "security" => Len(response.errors) > 0)
    /\ [][\A i \in DOMAIN Returned : Returned'[i] = Returned[i]]_vars

C27_Witness ==
    /\ validation.security # << >>
    /\ ~validation.security[1].isValid
    /\ Len(validation.security[1].errors) >= 2

\* C30: validateSqlQuery returns isValid true and an empty error list for
\* the empty text and for every text of white space only.
C30_BlankIsValid ==
    (validation.security # << >> /\ Len(trim(validation.input)) = 0)
       => /\ validation.security[1].isValid
          /\ validation.security[1].errors = << >>

\* C28: the text sent for execution is the text the caller passed, as it
\* is, on the read-only, the elevated and the fallback path: the trimmed and
\* lower-cased copy is used for matching only.
C28_OriginalTextExecuted ==
    /\ [](\A i \in Idx : cmds[i].cmd = "QUERY" => cmds[i].arg = sqlQuery)
    /\ [][(pc # "idle" /\ pc' # "idle") => sqlQuery' = sqlQuery]_vars

C28_Witness ==
    /\ toLowerCase(trim(sqlQuery)) # sqlQuery
    /\ \E i \in Idx : /\ cmds[i].cmd = "QUERY" /\ cmds[i].by = "secure"
                       /\ cmds[i].arg = sqlQuery
    /\ \E i \in Idx : /\ cmds[i].cmd = "QUERY" /\ cmds[i].by = "traditional"
                       /\ cmds[i].arg = sqlQuery

\* C29: the SELECT-only validation of the router is applied exactly when
\* REDSHIFT_SPECTRUM_STRICT_VALIDATION is enabled; with the setting "false"
\* the router runs the statement without it, so no statement is then
\* rejected by that validation.
C29_StrictValidationHonoured ==
    ~STRICT_VALIDATION =>
       /\ error # "validation"
       /\ outcome.cause # "validation"

(***************************************************************************)
(* Sanitizers, sample data, logging: claims C31 to C40.                    *)
(***************************************************************************)
\* the positions of s that hold a character of the set kept
KeptPositions(s, kept) == {i \in 1..Len(s) : s[i] \in kept}

\* out is s with exactly the characters outside kept deleted: the k-th
\* character of out is the character at the k-th kept position of s
DeletesOutside(s, out, kept) ==
    /\ Len(out) = Cardinality(KeptPositions(s, kept))
    /\ \A k \in 1..Len(out) :
          \E i \in KeptPositions(s, kept) :
             /\ Cardinality({j \in KeptPositions(s, kept) : j <= i}) = k
             /\ out[k] = s[i]

\* C31: sanitizeTableName returns the input with every character outside
\* [a-zA-Z0-9_.] deleted, sanitizeSchemaName the input with every character
\* outside [a-zA-Z0-9_] deleted, the other characters in their order; either
\* function applied to its own output returns that output.
C31_SanitizersDeleteAndSettle ==
    /\ \A i \in DOMAIN validation.tableName :
          DeletesOutside(validation.input, validation.tableName[i],
                         WordChars \cup {"."})
    /\ \A i \in DOMAIN validation.schemaName :
          DeletesOutside(validation.input, validation.schemaName[i], WordChars)
    /\ \A i \in DOMAIN validation.tableNameAgain :
          validation.tableNameAgain[i] = validation.tableName[1]
    /\ \A i \in DOMAIN validation.schemaNameAgain :
          validation.schemaNameAgain[i] = validation.schemaName[1]

C31_Witness ==
    /\ validation.tableName = << <<"x",".","t","_","1">> >>
    /\ validation.schemaName = << <<"x","t","_","1">> >>
    /\ validation.tableNameAgain # << >>
    /\ validation.schemaNameAgain # << >>

\* C32: every sample row served has the values of the columns email, phone,
\* ssn and credit_card replaced by REDACTED, on each path that serves sample
\* rows and whatever the type of the stored value.
C32_PiiRedacted ==
    \A i \in DOMAIN sample.served :
       \A c \in PiiColumns \cap DOMAIN sample.served[i] :
          sample.served[i][c] = REDACTED

\* C33: once a request of sendLogs is answered with a status from 400 to
\* 499, sendLogs makes no further request for that batch.
C33_ClientErrorNotRetried ==
    \A send \in backend.sends :
       send.step = "fetch" =>
          \A i \in DOMAIN send.answers : send.answers[i] # "client"

\* the number of times an entry occurs in the batches handed to sendLogs
RECURSIVE TimesHanded(_, _)
TimesHanded(entry, batches) ==
    IF Len(batches) = 0
    THEN 0
    ELSE Cardinality({i \in DOMAIN Head(batches) : Head(batches)[i] = entry})
            + TimesHanded(entry, Tail(batches))

TimesPending(entry) ==
    Cardinality({i \in DOMAIN backend.pendingLogs : backend.pendingLogs[i] = entry})

\* C39: with batching, every entry placed in pendingLogs is handed to
\* exactly one sendLogs call: it is never in two batches, it is either still
\* pending or handed over, a batch handed over is sent, and nothing stays
\* pending once close has reset the backend.
C39_EachEntryHandedOnce ==
    /\ \A entry \in backend.placed :
          TimesHanded(entry, backend.handed) + TimesPending(entry) = 1
    /\ backend.unsent = {}
    /\ (backend.closing = "returned" /\ ~backend.isInitialized)
          => backend.pendingLogs = << >>

\* C40: after close has returned the backend is not initialized and none of
\* its timers is armed.
C40_ClosedAfterClose ==
    backend.closing = "returned" => ~backend.isInitialized /\ backend.timers = 0

\* C34: a ROLLBACK is sent only when a BEGIN sent earlier by the same
\* invocation succeeded and no COMMIT or ROLLBACK has ended it since.
C34_RollbackOnlyInOpenTransaction ==
    \A i \in Idx :
       cmds[i].cmd = "ROLLBACK" =>
          \E j \in Idx :
             /\ j < i
             /\ IsBegin(j) /\ cmds[j].ok
             /\ \A k \in Idx : (j < k /\ k < i) => ~IsTerminator(k)

\* C35: a getGlobalLogger call made while no logger is set returns the
\* console fallback logger, and once the initialization it started has
\* returned without an error the global logger is the Winston logger.
C35_WinstonReplacesFallback ==
    /\ \A i \in DOMAIN logger.returned : logger.returned[i] # "null"
    /\ logger.asyncInit = "returned" => logger.globalLogger = "winston"

\* the flush timer is armed whenever entries are pending
TimerArmedWhilePending ==
    manager.pendingEntries > 0 => manager.batchFlushTimer = "armed"

\* C37: every entry placed in pendingEntries is passed to the backends in
\* the end: a flush timer is armed whenever entries are pending, and no
\* flush hands the pending entries to an empty set of backends.
C37_PendingEntriesReachBackends ==
    /\ TimerArmedWhilePending
    /\ ~manager.lost

\* C38: no log call rejects because a backend raises, and every delivery
\* calls each registered backend whichever of them raise.
C38_BackendFailureContained ==
    /\ ~manager.rejected
    /\ manager.last.called = manager.last.to

C38_Witness ==
    /\ manager.last.to = BackendNames
    /\ manager.last.called = BackendNames
    /\ manager.last.raised = {"console"}
    /\ manager.last.batch
    /\ manager.calls > 0

\* C36: every performance transaction that an invocation of the router
\* starts is finished before the invocation returns or throws, so that no
\* transaction is active while no request is in flight.
C36_NoTransactionLeftActive ==
    (pc = "idle" /\ parked.pc = "idle") => activeTransactions = {}

====
